---------------------------- MODULE Spec2Model ----------------------------
(***************************************************************************)
(* The automatic schema mapping engine of yoix (src/yoix/utils/automap.py) *)
(* and its caller's view of a call of auto_map_columns.                    *)
(*                                                                         *)
(* A Python str is modelled as a sequence of one-character strings, so     *)
(* that norm, tokens, the regular expressions and the edit distance work   *)
(* on characters as the code does.  A float in [0, 1] (a Jaccard or fuzzy  *)
(* ratio) is the exact fraction <<numerator, denominator>>; round() is     *)
(* round-half-to-even on the exact sum.                                    *)
(***************************************************************************)
EXTENDS Integers, Sequences, FiniteSets, TLC

(***************************************************************************)
(* Characters.                                                             *)
(***************************************************************************)
LowerChars == <<"a","b","c","d","e","f","g","h","i","j","k","l","m",
                "n","o","p","q","r","s","t","u","v","w","x","y","z">>
UpperChars == <<"A","B","C","D","E","F","G","H","I","J","K","L","M",
                "N","O","P","Q","R","S","T","U","V","W","X","Y","Z">>
DigitChars == <<"0","1","2","3","4","5","6","7","8","9">>

Range(s) == {s[i] : i \in DOMAIN s}

IsLower(c) == c \in Range(LowerChars)
IsUpper(c) == c \in Range(UpperChars)
IsDigit(c) == c \in Range(DigitChars)
\* \s of the re module, over the characters the model uses
IsSpace(c) == c \in {" ", "\t"}
\* the character class [_\-.\/]
IsSeparator(c) == c \in {"_", "-", ".", "/"}

\* str.lower() on one character
LowerChar(c) ==
    IF IsUpper(c)
    THEN LowerChars[CHOOSE i \in DOMAIN UpperChars : UpperChars[i] = c]
    ELSE c

DigitValue(c) == (CHOOSE i \in DOMAIN DigitChars : DigitChars[i] = c) - 1

(***************************************************************************)
(* str methods and re.sub calls used by norm.                              *)
(***************************************************************************)
RECURSIVE LStrip(_)
LStrip(s) ==
    IF s # <<>> /\ IsSpace(Head(s)) THEN LStrip(Tail(s)) ELSE s

RECURSIVE RStrip(_)
RStrip(s) ==
    IF s # <<>> /\ IsSpace(s[Len(s)])
    THEN RStrip(SubSeq(s, 1, Len(s) - 1))
    ELSE s

\* str.strip()
Strip(s) == RStrip(LStrip(s))

\* re.sub(r"([a-z])([A-Z])", r"\1 \2", s): a space between a lower-case
\* letter and the upper-case letter that follows it
RECURSIVE SplitCamel(_)
SplitCamel(s) ==
    IF Len(s) < 2 THEN s
    ELSE IF IsLower(s[1]) /\ IsUpper(s[2])
         THEN <<s[1], " ", s[2]>> \o SplitCamel(SubSeq(s, 3, Len(s)))
         ELSE <<s[1]>> \o SplitCamel(Tail(s))

\* re.sub(r"[_\-.\/]+", " ", s): every maximal run of separators becomes one
\* space; inRun says that the character before s was part of a run
RECURSIVE SubSeparators(_, _)
SubSeparators(s, inRun) ==
    IF s = <<>> THEN <<>>
    ELSE IF IsSeparator(Head(s))
         THEN (IF inRun THEN <<>> ELSE <<" ">>) \o SubSeparators(Tail(s), TRUE)
         ELSE <<Head(s)>> \o SubSeparators(Tail(s), FALSE)

\* re.sub(r"\s+", " ", s): every maximal run of whitespace becomes one space
RECURSIVE CollapseSpaces(_, _)
CollapseSpaces(s, inRun) ==
    IF s = <<>> THEN <<>>
    ELSE IF IsSpace(Head(s))
         THEN (IF inRun THEN <<>> ELSE <<" ">>) \o CollapseSpaces(Tail(s), TRUE)
         ELSE <<Head(s)>> \o CollapseSpaces(Tail(s), FALSE)

\* str.lower()
RECURSIVE Lower(_)
Lower(s) ==
    IF s = <<>> THEN <<>> ELSE <<LowerChar(Head(s))>> \o Lower(Tail(s))

\* norm without the two calls of strip
norm_unstripped(s) ==
    Lower(CollapseSpaces(SubSeparators(SplitCamel(s), FALSE), FALSE))

norm(s) ==
    LET s1 == Strip(s)
        s2 == SplitCamel(s1)
        s3 == SubSeparators(s2, FALSE)
        s4 == CollapseSpaces(s3, FALSE)
    IN  Strip(Lower(s4))

\* str.split(" "): the pieces between single spaces, empty pieces included
RECURSIVE Split(_, _)
Split(s, piece) ==
    IF s = <<>> THEN <<piece>>
    ELSE IF Head(s) = " "
         THEN <<piece>> \o Split(Tail(s), <<>>)
         ELSE Split(Tail(s), Append(piece, Head(s)))

tokens(s) == {t \in Range(Split(norm(s), <<>>)) : t # <<>>}

(***************************************************************************)
(* Similarity primitives.  A ratio is <<numerator, denominator>>.          *)
(***************************************************************************)
One  == <<1, 1>>
Zero == <<0, 1>>

\* p <= q for ratios with positive denominators
RatLeq(p, q) == p[1] * q[2] <= q[1] * p[2]
RatMax(p, q) == IF RatLeq(q, p) THEN p ELSE q

\* jaccard without the case of two empty sets
jaccard_without_empty_case(a, b) ==
    LET inter == Cardinality(a \cap b)
        card  == Cardinality(a \cup b)
    IN  <<inter, IF card = 0 THEN 1 ELSE card>>

jaccard(a, b) ==
    IF a = {} /\ b = {} THEN One
    ELSE LET inter == Cardinality(a \cap b)
             card  == Cardinality(a \cup b)
             union == IF card = 0 THEN 1 ELSE card
         IN  <<inter, union>>

Min3(x, y, z) ==
    IF x <= y /\ x <= z THEN x ELSE IF y <= z THEN y ELSE z

\* the loop "for j in range(1, lb + 1)" over the normalized string sb, for the
\* character ai; list index j of the code is sequence index j + 1 here, and
\* the rows have lb + 1 cells, so that the loop ends when j reaches Len(cur)
RECURSIVE EditInner(_, _, _, _, _)
EditInner(j, cur, prev, ai, sb) ==
    IF j >= Len(cur) THEN cur
    ELSE LET cost == IF ai = sb[j] THEN 0 ELSE 1
             v    == Min3(prev[j + 1] + 1,      \* deletion
                          cur[j] + 1,           \* insertion
                          prev[j] + cost)       \* substitution
         IN  EditInner(j + 1, [cur EXCEPT ![j + 1] = v], prev, ai, sb)

\* the outer loop without "cur[0] = i": the first cell of the row is the one
\* left there two passes before
RECURSIVE EditOuterStale(_, _, _, _, _)
EditOuterStale(i, prev, cur, sa, sb) ==
    IF i > Len(sa) THEN prev[Len(sb) + 1]
    ELSE EditOuterStale(i + 1, EditInner(1, cur, prev, sa[i], sb),
                        prev, sa, sb)

\* the loop "for i in range(1, la + 1)" over the normalized string sa, with
\* the swap "prev, cur = cur, prev" after each pass
RECURSIVE EditOuter(_, _, _, _, _)
EditOuter(i, prev, cur, sa, sb) ==
    IF i > Len(sa) THEN prev[Len(sb) + 1]
    ELSE EditOuter(i + 1, EditInner(1, [cur EXCEPT ![1] = i], prev, sa[i], sb),
                   prev, sa, sb)

edit_distance(a, b) ==
    LET A  == norm(a)
        B  == norm(b)
        la == Len(A)
        lb == Len(B)
    IN  IF la = 0 THEN lb
        ELSE IF lb = 0 THEN la
        ELSE EditOuter(1, [j \in 1..(lb + 1) |-> j - 1],
                          [j \in 1..(lb + 1) |-> 0], A, B)

\* fuzzy_score that divides by the shorter length
fuzzy_score_by_shorter(h, alias) ==
    LET h_n == norm(h)
        a_n == norm(alias)
    IN  IF h_n = a_n THEN One
        ELSE LET dist    == edit_distance(h_n, a_n)
                 shorter == IF Len(h_n) <= Len(a_n) THEN Len(h_n) ELSE Len(a_n)
                 max_len == IF shorter = 0 THEN 1 ELSE shorter
             IN  <<max_len - dist, max_len>>

fuzzy_score(h, alias) ==
    LET h_n == norm(h)
        a_n == norm(alias)
    IN  IF h_n = a_n THEN One
        ELSE LET dist    == edit_distance(h_n, a_n)
                 longer  == IF Len(h_n) >= Len(a_n) THEN Len(h_n) ELSE Len(a_n)
                 max_len == IF longer = 0 THEN 1 ELSE longer
             IN  <<max_len - dist, max_len>>

(***************************************************************************)
(* Content sniffer.                                                        *)
(***************************************************************************)
\* the sniffer looks at values[:50]
SampleCap == 50

\* EMAIL_RE.match(v): ^[^\s@]+@[^\s@]+\.[^\s]+$
EmailMatch(v) ==
    \E p \in 2..Len(v) :
        /\ v[p] = "@"
        /\ \A i \in 1..(p - 1) : ~IsSpace(v[i]) /\ v[i] # "@"
        /\ \E q \in (p + 2)..(Len(v) - 1) :
              /\ v[q] = "."
              /\ \A i \in (p + 1)..(q - 1) : ~IsSpace(v[i]) /\ v[i] # "@"
              /\ \A i \in (q + 1)..Len(v) : ~IsSpace(v[i])

\* the character class [\d\s().-]
IsPhoneChar(c) == IsDigit(c) \/ IsSpace(c) \/ c \in {"(", ")", ".", "-"}

\* PHONE_RE.search(v): \+?[\d\s().-]{7,} anywhere in v
PhoneSearch(v) ==
    \E p \in 1..(Len(v) - 6) : \A i \in p..(p + 6) : IsPhoneChar(v[i])

\* s starts with the letters of word, in either case (re.I)
StartsWithNoCase(s, word) ==
    /\ Len(s) >= Len(word)
    /\ \A i \in DOMAIN word : LowerChar(s[i]) = word[i]

\* URL_RE.match(v): ^https?://[^\s/$.?#].[^\s]*$
UrlMatch(v) ==
    \E scheme \in {<<"h","t","t","p",":","/","/">>,
                   <<"h","t","t","p","s",":","/","/">>} :
        LET k == Len(scheme) IN
        /\ StartsWithNoCase(v, scheme)
        /\ Len(v) >= k + 2
        /\ ~IsSpace(v[k + 1]) /\ v[k + 1] \notin {"/", "$", ".", "?", "#"}
        /\ v[k + 2] # "\n"
        /\ \A i \in (k + 3)..Len(v) : ~IsSpace(v[i])

\* v.replace('.', '', 1)
RECURSIVE RemoveFirstDot(_)
RemoveFirstDot(v) ==
    IF v = <<>> THEN <<>>
    ELSE IF Head(v) = "." THEN Tail(v)
    ELSE <<Head(v)>> \o RemoveFirstDot(Tail(v))

\* s.lstrip('-')
RECURSIVE LStripMinus(_)
LStripMinus(s) ==
    IF s # <<>> /\ Head(s) = "-" THEN LStripMinus(Tail(s)) ELSE s

\* str.isdigit()
IsDigitStr(s) == s # <<>> /\ \A i \in DOMAIN s : IsDigit(s[i])

\* v.replace('.', '', 1).lstrip('-').isdigit()
LooksNumeric(v) == IsDigitStr(LStripMinus(RemoveFirstDot(v)))

\* float(v) returns (does not raise ValueError), for a v of digits, '.', '-':
\* an optional sign, then digits with at most one point and at least one digit
FloatParses(v) ==
    LET body == IF v # <<>> /\ v[1] = "-" THEN Tail(v) ELSE v
    IN  /\ \A i \in DOMAIN body : IsDigit(body[i]) \/ body[i] = "."
        /\ Cardinality({i \in DOMAIN body : body[i] = "."}) <= 1
        /\ \E i \in DOMAIN body : IsDigit(body[i])

\* the number a string of digits denotes ("" is 0)
RECURSIVE DigitsValue(_)
DigitsValue(s) ==
    IF s = <<>> THEN 0
    ELSE 10 * DigitsValue(SubSeq(s, 1, Len(s) - 1)) + DigitValue(s[Len(s)])

\* -limit <= float(v) <= limit, for a v that float() parses
InRange(v, limit) ==
    LET body  == IF v[1] = "-" THEN Tail(v) ELSE v
        dots  == {i \in DOMAIN body : body[i] = "."}
        point == IF dots = {} THEN Len(body) + 1 ELSE CHOOSE i \in dots : TRUE
        whole == DigitsValue(SubSeq(body, 1, point - 1))
        frac  == SubSeq(body, point + 1, Len(body))
    IN  \/ whole < limit
        \/ whole = limit /\ \A i \in DOMAIN frac : frac[i] = "0"

\* [str(v).strip() for v in values if ... str(v).strip() != ""]
RECURSIVE StripNonBlank(_)
StripNonBlank(values) ==
    IF values = <<>> THEN <<>>
    ELSE LET v == Strip(Head(values))
         IN  (IF v # <<>> THEN <<v>> ELSE <<>>) \o StripNonBlank(Tail(values))

\* the sample of sniff_type: the non-blank ones of values[:50], stripped
Sample(values) ==
    StripNonBlank(SubSeq(values, 1, IF Len(values) < SampleCap
                                    THEN Len(values) ELSE SampleCap))

\* count(pred), matching being the values of the sample that satisfy pred
Count(sample, matching) ==
    Cardinality({i \in DOMAIN sample : sample[i] \in matching})

\* max(2, int(n * 0.2)) and int(n * 0.6)
PatternNeed(n) == IF (2 * n) \div 10 > 2 THEN (2 * n) \div 10 ELSE 2
RangeNeed(n) == (6 * n) \div 10

\* float(v) raises ValueError inside the lat count: the call of sniff_type
\* ends with that exception
SniffRaises(values) ==
    LET sample == Sample(values)
    IN  \E i \in DOMAIN sample :
            LooksNumeric(sample[i]) /\ ~FloatParses(sample[i])

\* sniff_type with the need of the pattern flags for the lng flag
sniff_type_lng_as_pattern(values) ==
    LET sample == Sample(values)
        n      == Len(sample)
        emails == {v \in Range(sample) : EmailMatch(v)}
        phones == {v \in Range(sample) : PhoneSearch(v)}
        urls   == {v \in Range(sample) : UrlMatch(v)}
        lats   == {v \in Range(sample) : LooksNumeric(v) /\ InRange(v, 90)}
        lngs   == {v \in Range(sample) : LooksNumeric(v) /\ InRange(v, 180)}
    IN  IF n = 0 THEN {}
        ELSE (IF Count(sample, emails) >= PatternNeed(n)
              THEN {"email"} ELSE {})
             \cup (IF Count(sample, phones) >= PatternNeed(n)
                   THEN {"phone"} ELSE {})
             \cup (IF Count(sample, urls) >= PatternNeed(n)
                   THEN {"website"} ELSE {})
             \cup (IF Count(sample, lats) >= RangeNeed(n)
                   THEN {"lat"} ELSE {})
             \cup (IF Count(sample, lngs) >= PatternNeed(n)
                   THEN {"lng"} ELSE {})

\* the keys of the dict sniff_type returns (every value is True), when it
\* returns
sniff_type(values) ==
    LET sample == Sample(values)
        n      == Len(sample)
        emails == {v \in Range(sample) : EmailMatch(v)}
        phones == {v \in Range(sample) : PhoneSearch(v)}
        urls   == {v \in Range(sample) : UrlMatch(v)}
        lats   == {v \in Range(sample) : LooksNumeric(v) /\ InRange(v, 90)}
        lngs   == {v \in Range(sample) : LooksNumeric(v) /\ InRange(v, 180)}
    IN  IF n = 0 THEN {}
        ELSE (IF Count(sample, emails) >= PatternNeed(n)
              THEN {"email"} ELSE {})
             \cup (IF Count(sample, phones) >= PatternNeed(n)
                   THEN {"phone"} ELSE {})
             \cup (IF Count(sample, urls) >= PatternNeed(n)
                   THEN {"website"} ELSE {})
             \cup (IF Count(sample, lats) >= RangeNeed(n)
                   THEN {"lat"} ELSE {})
             \cup (IF Count(sample, lngs) >= RangeNeed(n)
                   THEN {"lng"} ELSE {})

(***************************************************************************)
(* The built-in alias table.  A dict is a function; its key order is kept  *)
(* beside it as a sequence.                                                *)
(***************************************************************************)
\* the keys of ALIASES, in the order of the table
FieldOrder ==
    <<"name", "address", "address2", "city", "state", "postal_code",
      "country", "phone", "email", "website", "lat", "lng",
      "category", "tags", "description", "hours", "price", "rating">>

ALIASES ==
       "name" :> <<  \* name, business_name, company, title, listing_name
           <<"n","a","m","e">>,
           <<"b","u","s","i","n","e","s","s","_","n","a","m","e">>,
           <<"c","o","m","p","a","n","y">>,
           <<"t","i","t","l","e">>,
           <<"l","i","s","t","i","n","g","_","n","a","m","e">> >>
    @@ "address" :> <<  \* address, street, street1, addr1, line1
           <<"a","d","d","r","e","s","s">>,
           <<"s","t","r","e","e","t">>,
           <<"s","t","r","e","e","t","1">>,
           <<"a","d","d","r","1">>,
           <<"l","i","n","e","1">> >>
    @@ "address2" :> <<  \* address2, street2, addr2, line2, suite, unit, apt
           <<"a","d","d","r","e","s","s","2">>,
           <<"s","t","r","e","e","t","2">>,
           <<"a","d","d","r","2">>,
           <<"l","i","n","e","2">>,
           <<"s","u","i","t","e">>,
           <<"u","n","i","t">>,
           <<"a","p","t">> >>
    @@ "city" :> <<  \* city, town, locality
           <<"c","i","t","y">>,
           <<"t","o","w","n">>,
           <<"l","o","c","a","l","i","t","y">> >>
    @@ "state" :> <<  \* state, province, region, state_province, admin_area
           <<"s","t","a","t","e">>,
           <<"p","r","o","v","i","n","c","e">>,
           <<"r","e","g","i","o","n">>,
           <<"s","t","a","t","e","_","p","r","o","v","i","n","c","e">>,
           <<"a","d","m","i","n","_","a","r","e","a">> >>
    @@ "postal_code" :> <<  \* zip, zipcode, postal, postal_code, post_code, postcode
           <<"z","i","p">>,
           <<"z","i","p","c","o","d","e">>,
           <<"p","o","s","t","a","l">>,
           <<"p","o","s","t","a","l","_","c","o","d","e">>,
           <<"p","o","s","t","_","c","o","d","e">>,
           <<"p","o","s","t","c","o","d","e">> >>
    @@ "country" :> <<  \* country, country_code, nation, iso2, iso3
           <<"c","o","u","n","t","r","y">>,
           <<"c","o","u","n","t","r","y","_","c","o","d","e">>,
           <<"n","a","t","i","o","n">>,
           <<"i","s","o","2">>,
           <<"i","s","o","3">> >>
    @@ "phone" :> <<  \* phone, tel, telephone, mobile, cell, contact_phone
           <<"p","h","o","n","e">>,
           <<"t","e","l">>,
           <<"t","e","l","e","p","h","o","n","e">>,
           <<"m","o","b","i","l","e">>,
           <<"c","e","l","l">>,
           <<"c","o","n","t","a","c","t","_","p","h","o","n","e">> >>
    @@ "email" :> <<  \* email, e-mail, contact_email
           <<"e","m","a","i","l">>,
           <<"e","-","m","a","i","l">>,
           <<"c","o","n","t","a","c","t","_","e","m","a","i","l">> >>
    @@ "website" :> <<  \* website, url, link, homepage, site
           <<"w","e","b","s","i","t","e">>,
           <<"u","r","l">>,
           <<"l","i","n","k">>,
           <<"h","o","m","e","p","a","g","e">>,
           <<"s","i","t","e">> >>
    @@ "lat" :> <<  \* lat, latitude, y
           <<"l","a","t">>,
           <<"l","a","t","i","t","u","d","e">>,
           <<"y">> >>
    @@ "lng" :> <<  \* lng, long, longitude, x
           <<"l","n","g">>,
           <<"l","o","n","g">>,
           <<"l","o","n","g","i","t","u","d","e">>,
           <<"x">> >>
    @@ "category" :> <<  \* category, type, segment, vertical
           <<"c","a","t","e","g","o","r","y">>,
           <<"t","y","p","e">>,
           <<"s","e","g","m","e","n","t">>,
           <<"v","e","r","t","i","c","a","l">> >>
    @@ "tags" :> <<  \* tags, keywords, labels
           <<"t","a","g","s">>,
           <<"k","e","y","w","o","r","d","s">>,
           <<"l","a","b","e","l","s">> >>
    @@ "description" :> <<  \* description, about, summary, blurb
           <<"d","e","s","c","r","i","p","t","i","o","n">>,
           <<"a","b","o","u","t">>,
           <<"s","u","m","m","a","r","y">>,
           <<"b","l","u","r","b">> >>
    @@ "hours" :> <<  \* hours, opening_hours, open_hours, schedule
           <<"h","o","u","r","s">>,
           <<"o","p","e","n","i","n","g","_","h","o","u","r","s">>,
           <<"o","p","e","n","_","h","o","u","r","s">>,
           <<"s","c","h","e","d","u","l","e">> >>
    @@ "price" :> <<  \* price, cost, pricing, price_level
           <<"p","r","i","c","e">>,
           <<"c","o","s","t">>,
           <<"p","r","i","c","i","n","g">>,
           <<"p","r","i","c","e","_","l","e","v","e","l">> >>
    @@ "rating" :> <<  \* rating, stars, score
           <<"r","a","t","i","n","g">>,
           <<"s","t","a","r","s">>,
           <<"s","c","o","r","e">> >>

\* d.get(k, []) for a dict d of lists
Get(d, k) == IF k \in DOMAIN d THEN d[k] ELSE <<>>

\* a removal of duplicates that keeps the last occurrence of every element
RECURSIVE DedupKeepLast(_)
DedupKeepLast(xs) ==
    IF xs = <<>> THEN <<>>
    ELSE LET rest == DedupKeepLast(Tail(xs))
         IN  IF Head(xs) \in Range(Tail(xs)) THEN rest ELSE <<Head(xs)>> \o rest

\* list(dict.fromkeys(xs)): the first occurrence of every element, in order
RECURSIVE Dedup(_)
Dedup(xs) ==
    IF xs = <<>> THEN <<>>
    ELSE LET init == Dedup(SubSeq(xs, 1, Len(xs) - 1))
             last == xs[Len(xs)]
         IN  IF last \in Range(init) THEN init ELSE Append(init, last)

\* set(ALIASES) | set(learned_aliases)
FieldSet(learned_aliases) == DOMAIN ALIASES \cup DOMAIN learned_aliases

\* a merge that leaves the learned aliases out
MergeAliasesBuiltIn(learned_aliases) ==
    [k \in FieldSet(learned_aliases) |-> Dedup(Get(ALIASES, k))]

\* a merge in which a learned list replaces the built-in list of its field
MergeAliasesLearnedFirst(learned_aliases) ==
    [k \in FieldSet(learned_aliases) |->
        IF Get(learned_aliases, k) # <<>> THEN Dedup(learned_aliases[k])
        ELSE Dedup(Get(ALIASES, k))]

\* the dict all_aliases (its key order is the iteration order of FieldSet)
MergeAliases(learned_aliases) ==
    [k \in FieldSet(learned_aliases) |->
        Dedup(Get(ALIASES, k) \o Get(learned_aliases, k))]


(***************************************************************************)
(* Inputs of the calls.                                                    *)
(***************************************************************************)
MaxHeaders == 2
MaxRows == 2

\* candidate column headers: zip, status, contact_email, e-mail
HeaderPool ==
    { <<"z","i","p">>,
      <<"s","t","a","t","u","s">>,
      <<"c","o","n","t","a","c","t","_","e","m","a","i","l">>,
      <<"e","-","m","a","i","l">> }

\* the header lists of a file: up to MaxHeaders distinct headers, in any order
RECURSIVE HeaderLists(_)
HeaderLists(n) ==
    IF n = 0 THEN {<<>>}
    ELSE LET shorter == HeaderLists(n - 1)
         IN  shorter \cup
             UNION {{Append(hs, h) : h \in HeaderPool \ Range(hs)} :
                       hs \in {s \in shorter : Len(s) = n - 1}}

\* sample columns: the cells of one column, row after row; the first column
\* of a file holds e-mail addresses or numbers (one of them malformed)
ColumnKinds == {"email", "malformed"}

ColumnCells(kind) ==
    CASE kind = "text"      -> << <<"N","Y">>, <<"a","c","t","i","v","e">> >>
      [] kind = "email"     -> << <<"a","@","b",".","c","o">>,
                                  <<"i","n","f","o","@","x",".","o","r","g">> >>
      [] kind = "malformed" -> << <<"1","2">>, <<"-","-","5">> >>

\* cell i of a column of the kind (the cells repeat)
Cell(kind, i) == ColumnCells(kind)[((i - 1) % Len(ColumnCells(kind))) + 1]

\* the sample rows of a file: n rows (csv.DictReader gives every row every
\* header); the first column is of the kind, the other columns are text
RowSets(headers) ==
    {<<>>} \cup
    { [i \in 1..n |->
          [h \in Range(headers) |->
              IF h = headers[1] THEN Cell(kind, i) ELSE Cell("text", i)]] :
      n \in 1..MaxRows, kind \in ColumnKinds }

\* the files of the collision of status and state: the two headers in either
\* order, without rows or with rows of words or with a first column of
\* e-mail addresses (no cell is numeric)
CollisionHeaders ==
    { << <<"s","t","a","t","u","s">>, <<"s","t","a","t","e">> >>,
      << <<"s","t","a","t","e">>, <<"s","t","a","t","u","s">> >> }

CollisionRows(headers) ==
    { [i \in 1..n |->
          [h \in Range(headers) |->
              IF h = headers[1] THEN Cell(kind, i) ELSE Cell("text", i)]] :
      n \in 0..MaxRows, kind \in {"text", "email"} }

\* learned alias tables (the empty one is learned_aliases = None or {}): one
\* with a field of no built-in aliases, a built-in field with an empty list,
\* and for state the aliases status, state, status (one alias is built in,
\* one is repeated); one that makes zip an alias of category
LearnedPool ==
    { <<>>,
      ("notes" :> <<>>) @@ ("city" :> <<>>)
          @@ ("state" :> << <<"s","t","a","t","u","s">>,
                            <<"s","t","a","t","e">>,
                            <<"s","t","a","t","u","s">> >>),
      ("category" :> << <<"z","i","p">> >>) }

\* the default of the threshold parameter
DefaultThreshold == 75

Thresholds == {0, 40, DefaultThreshold}

\* a sequence of the elements of a finite set
RECURSIVE SeqOfSet(_)
SeqOfSet(S) ==
    IF S = {} THEN <<>>
    ELSE LET x == CHOOSE y \in S : TRUE IN <<x>> \o SeqOfSet(S \ {x})

RECURSIVE Reverse(_)
Reverse(s) ==
    IF s = <<>> THEN <<>> ELSE Append(Reverse(Tail(s)), Head(s))

\* the order of the built-in table, then the fields that are only learned
TableOrder(learned_aliases) ==
    FieldOrder \o SeqOfSet(DOMAIN learned_aliases \ DOMAIN ALIASES)

\* iteration orders of set(ALIASES) | set(learned_aliases): the order of a set
\* of str depends on the hash seed of the process, so a call may see any of
\* them
KeyOrders(learned_aliases) ==
    {TableOrder(learned_aliases), Reverse(TableOrder(learned_aliases))}

\* the strings the calls of the model meet: the headers and the aliases
AliasStrings(table) == UNION {Range(table[f]) : f \in DOMAIN table}

HeaderStrings == HeaderPool \cup UNION {Range(hs) : hs \in CollisionHeaders}
\* (the import command learns headers as aliases)
KnownAliases ==
    AliasStrings(ALIASES) \cup UNION {AliasStrings(l) : l \in LearnedPool}
        \cup HeaderStrings
(***************************************************************************)
(* Scorer.                                                                 *)
(***************************************************************************)
\* the absent value of a row (None)
None == <<"None">>

\* samples_by_header[h]: the values of column h that are present and not None,
\* row after row
RECURSIVE SamplesOf(_, _)
SamplesOf(rows, h) ==
    IF rows = <<>> THEN <<>>
    ELSE LET r == Head(rows)
         IN  (IF h \in DOMAIN r /\ r[h] # None THEN <<r[h]>> ELSE <<>>)
             \o SamplesOf(Tail(rows), h)

\* the largest of a non-empty set of ratios
RatMaxOf(S) == CHOOSE p \in S : \A q \in S : RatLeq(q, p)

\* int(round(num / den)) for den > 0: Python 3 rounds a half to the even
\* neighbour
RoundHalfEven(num, den) ==
    LET q == num \div den
        r == num - q * den
    IN  IF 2 * r < den THEN q
        ELSE IF 2 * r > den THEN q + 1
        ELSE IF q % 2 = 0 THEN q ELSE q + 1

\* norm(s), tokens(s) and fuzzy_score(h, a) over the strings of the calls, as
\* explicit tables (f @@ <<>> is f, enumerated)
NormOf == [s \in HeaderStrings \cup KnownAliases |-> norm(s)] @@ <<>>
TokensOf == [s \in HeaderStrings \cup KnownAliases |-> tokens(s)] @@ <<>>
FuzzyOf ==
    [h \in HeaderStrings |-> [a \in KnownAliases |-> fuzzy_score(h, a)] @@ <<>>]
    @@ <<>>

\* the exact alias term that adds 10
ExactTermOfTen(alias_list, hn_norm) ==
    IF \E i \in DOMAIN alias_list : NormOf[alias_list[i]] = hn_norm
    THEN 10 ELSE 0

\* the exact alias term: 100 when the norm of an alias is the norm of the header
ExactTerm(alias_list, hn_norm) ==
    IF \E i \in DOMAIN alias_list : NormOf[alias_list[i]] = hn_norm
    THEN 100 ELSE 0

\* a sniffing term that adds 30 for any flag of the header
SniffTermAnyFlag(field, flags) == IF flags # {} THEN 30 ELSE 0

\* the sniffing term: 30 when the header has the flag of the field
SniffTerm(field, flags) == IF field \in flags THEN 30 ELSE 0

\* the score of header h for a field: the body of the loop "for h in headers"
Score(field, alias_list, h, flags) ==
    LET hn_norm == NormOf[h]
        hn_toks == TokensOf[h]
        alias_tok_max ==
            IF alias_list = <<>> THEN Zero
            ELSE RatMaxOf({jaccard(hn_toks, TokensOf[alias_list[i]]) :
                              i \in DOMAIN alias_list})
        fuzzy_max ==
            IF alias_list = <<>> THEN Zero
            ELSE RatMaxOf({FuzzyOf[h][alias_list[i]] :
                              i \in DOMAIN alias_list})
        whole ==
              ExactTerm(alias_list, hn_norm)
            + SniffTerm(field, flags)
            + (IF field = "postal_code"
                  /\ hn_norm \in {<<"z","i","p">>, <<"z","i","p","c","o","d","e">>}
               THEN 10 ELSE 0)
            + (IF field = "phone"
                  /\ hn_norm \in {<<"t","e","l">>,
                                  <<"t","e","l","e","p","h","o","n","e">>}
               THEN 10 ELSE 0)
            - (IF field = "state" /\ <<"s","t","a","t","u","s">> \in hn_toks
               THEN 30 ELSE 0)
        den == alias_tok_max[2] * fuzzy_max[2]
        num == whole * den + 70 * alias_tok_max[1] * fuzzy_max[2]
                           + 40 * fuzzy_max[1] * alias_tok_max[2]
    IN  RoundHalfEven(num, den)

\* sorted(scored, key=lambda x: x["score"], reverse=True): the sort is stable,
\* also with reverse=True, so an entry goes after the entries that score at
\* least as much
\* Insert with an unstable tie: the entry goes before the entries of its score
InsertBeforeTies(ranked, e) ==
    LET before == {i \in DOMAIN ranked : ranked[i].score > e.score}
        k      == Cardinality(before)
    IN  SubSeq(ranked, 1, k) \o <<e>> \o SubSeq(ranked, k + 1, Len(ranked))

Insert(ranked, e) ==
    LET before == {i \in DOMAIN ranked : ranked[i].score >= e.score}
        k      == Cardinality(before)
    IN  SubSeq(ranked, 1, k) \o <<e>> \o SubSeq(ranked, k + 1, Len(ranked))

\* SortedDesc without the sort: the list stays in header order
Unsorted(scored) == scored

RECURSIVE SortedDesc(_)
SortedDesc(scored) ==
    IF scored = <<>> THEN <<>>
    ELSE Insert(SortedDesc(SubSeq(scored, 1, Len(scored) - 1)),
                scored[Len(scored)])

\* the list scored after the first n passes of the loop "for h in headers"
RECURSIVE ScoredAfter(_, _, _, _, _)
ScoredAfter(n, field, alias_list, headers, sniff_flags) ==
    IF n = 0 THEN <<>>
    ELSE Append(ScoredAfter(n - 1, field, alias_list, headers, sniff_flags),
                [header |-> headers[n],
                 score  |-> Score(field, alias_list, headers[n],
                                  sniff_flags[headers[n]])])

\* scores[field]: the ranked list of one field
Ranked(field, alias_list, headers, sniff_flags) ==
    SortedDesc(ScoredAfter(Len(headers), field, alias_list, headers,
                           sniff_flags))

\* sniff_flags: the flags of every header (a dict comprehension over headers)
RECURSIVE SniffFlags(_, _)
SniffFlags(headers, rows) ==
    IF headers = <<>> THEN <<>>
    ELSE (Head(headers) :> sniff_type(SamplesOf(rows, Head(headers))))
         @@ SniffFlags(Tail(headers), rows)

\* the dict scores after the first n passes of the loop
\* "for field, alias_list in all_aliases.items()"
RECURSIVE ScoresAfter(_, _, _, _, _)
ScoresAfter(n, key_order, all_aliases, headers, sniff_flags) ==
    IF n = 0 THEN <<>>
    ELSE LET field == key_order[n]
         IN  ScoresAfter(n - 1, key_order, all_aliases, headers, sniff_flags)
             @@ (field :> Ranked(field, all_aliases[field], headers, sniff_flags))

\* lines 109-156 of a call: the merge, the sniffing and the scoring.  The
\* call ends there when float() raises in sniff_type.
ScoreStage(headers, rows, learned_aliases, key_order) ==
    IF \E i \in DOMAIN headers : SniffRaises(SamplesOf(rows, headers[i]))
    THEN [outcome |-> "raised", scores |-> <<>>]
    ELSE [outcome |-> "returned",
          scores  |-> ScoresAfter(Len(key_order), key_order,
                                  MergeAliases(learned_aliases), headers,
                                  SniffFlags(headers, rows))]

(***************************************************************************)
(* Assigner.                                                               *)
(***************************************************************************)
NoMapping == [mapping |-> <<>>, chosen_headers |-> {}]

\* the first unclaimed entry of a ranked list, given the claimed headers
FirstUnclaimed(ranked, claimed) ==
    ranked[CHOOSE i \in DOMAIN ranked :
               /\ ranked[i].header \notin claimed
               /\ \A j \in 1..(i - 1) : ranked[j].header \in claimed]

\* AssignField without the test "header not in chosen_headers"
AssignFieldNoClaimCheck(field, ranked, threshold, acc) ==
    IF ranked = <<>> THEN acc
    ELSE IF ranked[1].score >= threshold
         THEN [mapping |-> acc.mapping @@ (field :> ranked[1].header),
               chosen_headers |-> acc.chosen_headers \cup {ranked[1].header}]
         ELSE acc

\* AssignField without the test "score >= threshold"
AssignFieldNoThreshold(field, ranked, threshold, acc) ==
    IF \A i \in DOMAIN ranked : ranked[i].header \in acc.chosen_headers
    THEN acc
    ELSE LET best == FirstUnclaimed(ranked, acc.chosen_headers)
         IN  [mapping |-> acc.mapping @@ (field :> best.header),
              chosen_headers |-> acc.chosen_headers \cup {best.header}]

\* AssignField with the threshold test inverted
AssignFieldInverted(field, ranked, threshold, acc) ==
    IF \A i \in DOMAIN ranked : ranked[i].header \in acc.chosen_headers
    THEN acc
    ELSE LET best == FirstUnclaimed(ranked, acc.chosen_headers)
         IN  IF best.score < threshold
             THEN [mapping |-> acc.mapping @@ (field :> best.header),
                   chosen_headers |-> acc.chosen_headers \cup {best.header}]
             ELSE acc

\* AssignField where a later field takes a claimed header over from the
\* field that holds it
AssignFieldSteal(field, ranked, threshold, acc) ==
    IF ranked = <<>> THEN acc
    ELSE IF ranked[1].score >= threshold
         THEN LET kept == {f \in DOMAIN acc.mapping :
                              acc.mapping[f] # ranked[1].header}
              IN  [mapping |-> [f \in kept |-> acc.mapping[f]]
                               @@ (field :> ranked[1].header),
                   chosen_headers |-> acc.chosen_headers \cup {ranked[1].header}]
         ELSE acc

\* one pass of the loop "for field, ranked in scores.items()"
AssignField(field, ranked, threshold, acc) ==
    LET unclaimed == {i \in DOMAIN ranked :
                         ranked[i].header \notin acc.chosen_headers}
    IN  IF unclaimed = {} THEN acc              \* best is None
        ELSE LET best == ranked[CHOOSE i \in unclaimed :
                                    \A j \in unclaimed : i <= j]
             IN  IF best.score >= threshold
                 THEN [mapping |-> acc.mapping @@ (field :> best.header),
                       chosen_headers |-> acc.chosen_headers \cup {best.header}]
                 ELSE acc

\* mapping and chosen_headers after the first n fields of key_order
RECURSIVE AssignedAfter(_, _, _, _)
AssignedAfter(n, key_order, scores, threshold) ==
    IF n = 0 THEN NoMapping
    ELSE AssignField(key_order[n], scores[key_order[n]], threshold,
                     AssignedAfter(n - 1, key_order, scores, threshold))

\* AssignStage that removes the claimed headers from the lists of scores
AssignStagePruned(scored, threshold, key_order) ==
    IF scored.outcome = "raised"
    THEN [outcome |-> "raised", mapping |-> <<>>, scores |-> <<>>]
    ELSE LET assigned == AssignedAfter(Len(key_order), key_order,
                                       scored.scores, threshold)
         IN  [outcome |-> "returned",
              mapping |-> assigned.mapping,
              scores  |-> [f \in DOMAIN scored.scores |->
                              SelectSeq(scored.scores[f],
                                        LAMBDA e : e.header \notin
                                                   assigned.chosen_headers)]]

\* lines 158-166 of a call: the assignment and the return
AssignStage(scored, threshold, key_order) ==
    IF scored.outcome = "raised"
    THEN [outcome |-> "raised", mapping |-> <<>>, scores |-> <<>>]
    ELSE [outcome |-> "returned",
          mapping |-> AssignedAfter(Len(key_order), key_order, scored.scores,
                                    threshold).mapping,
          scores  |-> scored.scores]

\* what a call of auto_map_columns does, key_order being the order in which
\* the runtime iterates set(ALIASES) | set(learned_aliases)
auto_map_columns(headers, rows, learned_aliases, threshold, key_order) ==
    AssignStage(ScoreStage(headers, rows, learned_aliases, key_order),
                threshold, key_order)

(***************************************************************************)
(* top_candidates(scores, field, k): the first k candidates of a field.    *)
(***************************************************************************)
\* ranked[:k] of Python: the first k elements, and for a negative k all but
\* the last -k elements
SliceTo(ranked, k) ==
    IF k >= 0
    THEN SubSeq(ranked, 1, IF k < Len(ranked) THEN k ELSE Len(ranked))
    ELSE SubSeq(ranked, 1, IF Len(ranked) + k > 0 THEN Len(ranked) + k ELSE 0)

\* top_candidates that slices ranked[:k + 1]
top_candidates_one_more(scores, field, k) ==
    LET ranked == IF field \in DOMAIN scores THEN scores[field] ELSE <<>>
        shown  == SliceTo(ranked, k + 1)
    IN  [i \in DOMAIN shown |-> <<shown[i].header, shown[i].score>>]

top_candidates(scores, field, k) ==
    LET ranked == IF field \in DOMAIN scores THEN scores[field] ELSE <<>>
        shown  == SliceTo(ranked, k)
    IN  [i \in DOMAIN shown |-> <<shown[i].header, shown[i].score>>]

\* the fields and the values of k with which top_candidates is called: a
\* field with sniffing, the field of the penalty, a field that only a learned
\* table adds, a field of no table; k omitted is 3
DefaultK == 3
CandidateFields == {"email", "state", "category", "notes", "fax"}
CandidateCounts == {-1, 0, 1, DefaultK}

(***************************************************************************)
(* The caller: a file (headers and sample rows) whose columns are mapped   *)
(* by successive calls of auto_map_columns; the state keeps the latest     *)
(* call and the call before it, each with its arguments and its result.    *)
(***************************************************************************)
VARIABLES
    file_headers,   \* the column headers of the file
    file_rows,      \* the sample rows of the file
    prev_call,      \* the call before the latest call
    last_call,      \* the latest call
    candidates,     \* the latest call of top_candidates
    builtin_table,  \* the module-level dict ALIASES of the process
    passed,         \* the arguments of the latest call, as passed and as left
    sample_values,  \* a list of values for a direct call of sniff_type
    sniffed,        \* the direct call of sniff_type
    cache,          \* the entries dataset:<name> and mappings:<name> of the store
    last_import,    \* the latest run of the import command
    prev_import,    \* the run of the import command before the latest
    import_count,   \* the number of runs of the import command
    text_a,         \* a string given to the string functions
    text_b,         \* a second string given to the string functions
    computed        \* what the string functions returned for text_a, text_b

import_vars == <<cache, last_import, prev_import, import_count>>
text_vars == <<text_a, text_b, computed>>

vars == <<file_headers, file_rows, prev_call, last_call, candidates,
          builtin_table, passed, sample_values, sniffed, import_vars,
          text_vars>>

NoCall == [outcome |-> "none"]

\* the store without the two entries, before any run of the import command:
\* the store is a function from the keys that have an entry to their values
EmptyCache == <<>>

NoImports ==
    /\ cache = EmptyCache
    /\ last_import = NoCall
    /\ prev_import = NoCall
    /\ import_count = 0

\* no string is given to the string functions
NoTexts ==
    /\ text_a = <<>>
    /\ text_b = <<>>
    /\ computed = NoCall

Init ==
    /\ file_headers \in HeaderLists(MaxHeaders)
    /\ file_rows \in RowSets(file_headers)
    /\ prev_call = NoCall
    /\ last_call = NoCall
    /\ candidates = NoCall
    /\ builtin_table = ALIASES
    /\ passed = NoCall
    /\ sample_values = <<>>
    /\ sniffed = NoCall
    /\ NoImports
    /\ NoTexts

\* a call after the first repeats the call before it with another threshold
\* or in a process with another iteration order
Follows(learned_aliases, threshold, key_order) ==
    IF last_call = NoCall THEN TRUE
    ELSE /\ learned_aliases = last_call.learned_aliases
         /\ (threshold = last_call.threshold) # (key_order = last_call.key_order)

\* the record of a call: its arguments, the table all_aliases it built, and
\* its result
CallRecord(learned_aliases, threshold, key_order) ==
    [learned_aliases |-> learned_aliases,
     threshold       |-> threshold,
     key_order       |-> key_order,
     all_aliases     |-> MergeAliases(learned_aliases)]
    @@ auto_map_columns(file_headers, file_rows,
                        learned_aliases, threshold, key_order)

\* a call that extends the built-in lists in place with the learned aliases
InputsAfterExtend(headers, rows, learned_aliases, builtin) ==
    [headers         |-> headers,
     rows            |-> rows,
     learned_aliases |-> learned_aliases,
     builtin         |-> [k \in DOMAIN builtin |->
                             builtin[k] \o Get(learned_aliases, k)]]

\* the objects a call is given, and ALIASES, as the call leaves them: the call
\* only reads them ("learned_aliases or {}" binds the name again, "+" builds
\* a new list, get, "in" and the slice of sniff_type do not write, and
\* samples_by_header, sniff_flags, scores and mapping are new objects)
InputsAfter(headers, rows, learned_aliases, builtin) ==
    [headers         |-> headers,
     rows            |-> rows,
     learned_aliases |-> learned_aliases,
     builtin         |-> builtin]

\* the objects of a call: before it, and after it
Passed(learned_aliases) ==
    [before |-> [headers         |-> file_headers,
                 rows            |-> file_rows,
                 learned_aliases |-> learned_aliases,
                 builtin         |-> builtin_table],
     after  |-> InputsAfter(file_headers, file_rows, learned_aliases,
                            builtin_table)]

\* the state after a call: the record of the call, and the objects it was
\* given
Returns(learned_aliases, threshold, key_order) ==
    /\ prev_call' = last_call
    /\ last_call' = CallRecord(learned_aliases, threshold, key_order)
    /\ passed' = Passed(learned_aliases)
    /\ file_headers' = passed'.after.headers
    /\ file_rows' = passed'.after.rows
    /\ builtin_table' = passed'.after.builtin
    /\ UNCHANGED <<candidates, sample_values, sniffed, import_vars, text_vars>>

\* a call auto_map_columns(headers, rows, learned_aliases, threshold) in a
\* process that iterates the field set in key_order
Call(learned_aliases, threshold, key_order) ==
    /\ Follows(learned_aliases, threshold, key_order)
    /\ Returns(learned_aliases, threshold, key_order)

Next ==
    \E learned_aliases \in LearnedPool :
        \E threshold \in Thresholds, key_order \in KeyOrders(learned_aliases) :
            Call(learned_aliases, threshold, key_order)

Spec == Init /\ [][Next]_vars

\* a call top_candidates(scores, field, k) on the scores of the latest call
TopCandidates(field, k) ==
    /\ last_call.outcome = "returned"
    /\ candidates' = [field   |-> field,
                      k       |-> k,
                      outcome |-> "returned",
                      result  |-> top_candidates(last_call.scores, field, k)]
    /\ UNCHANGED <<file_headers, file_rows, prev_call, last_call,
                   builtin_table, passed, sample_values, sniffed, import_vars,
                   text_vars>>

\* the file is mapped once and the candidates of its fields are then shown
FirstCall ==
    /\ last_call = NoCall
    /\ Next

ShowCandidates ==
    \E field \in CandidateFields, k \in CandidateCounts : TopCandidates(field, k)

CandidatesNext == FirstCall \/ ShowCandidates

CandidatesSpec == Init /\ [][CandidatesNext]_vars

\* the caller learns aliases after a first call without any, and runs the
\* engine again on the same file with the same threshold in the same process
Relearn(learned_aliases) ==
    /\ last_call # NoCall
    /\ prev_call = NoCall
    /\ last_call.learned_aliases = <<>>
    /\ learned_aliases # <<>>
    /\ Returns(learned_aliases, last_call.threshold,
               IF last_call.key_order = TableOrder(<<>>)
               THEN TableOrder(learned_aliases)
               ELSE Reverse(TableOrder(learned_aliases)))

LearnNext ==
    \/ FirstCall
    \/ \E learned_aliases \in LearnedPool : Relearn(learned_aliases)

LearnSpec == Init /\ [][LearnNext]_vars

\* the calls on a file with the headers status and state
CollisionInit ==
    /\ file_headers \in CollisionHeaders
    /\ file_rows \in CollisionRows(file_headers)
    /\ prev_call = NoCall
    /\ last_call = NoCall
    /\ candidates = NoCall
    /\ builtin_table = ALIASES
    /\ passed = NoCall
    /\ sample_values = <<>>
    /\ sniffed = NoCall
    /\ NoImports
    /\ NoTexts

CollisionSpec == CollisionInit /\ [][Next]_vars

(***************************************************************************)
(* Direct calls of sniff_type on the values of one column.                 *)
(***************************************************************************)
\* n copies of a cell
Repeat(cell, n) == [i \in 1..n |-> cell]

\* the first n cells of a list of cells
FirstCells(cells, n) == SubSeq(cells, 1, n)

\* the cells of the columns: blank ones, addresses, numbers (one in the range
\* of a latitude, one only in the range of a longitude), words, and a cell
\* of two minus signs and a digit
BlankCell == <<" ">>
EmailCells == << <<"a","@","b",".","c","o">>, <<"c","@","d",".","o","r","g">> >>
NumberCells == << <<"1","2">>, <<"1","2","0">> >>
WordCell == <<"N","Y">>
MalformedCell == <<"-","-","5">>

\* how many cells of each kind a column has
BlankCounts == {0, SampleCap - 2, SampleCap}
EmailCounts == {0, Len(EmailCells)}
NumberCounts == 0..Len(NumberCells)
WordCounts == {0, 1, 2, 9}
MalformedCounts == {0, 1}

\* the columns: blank cells, then addresses, numbers, words and malformed
\* cells
Columns ==
    { Repeat(BlankCell, b) \o FirstCells(EmailCells, e)
          \o FirstCells(NumberCells, m) \o Repeat(WordCell, w)
          \o Repeat(MalformedCell, x) :
      b \in BlankCounts, e \in EmailCounts, m \in NumberCounts,
      w \in WordCounts, x \in MalformedCounts }

SniffInit ==
    /\ file_headers = <<>>
    /\ file_rows = <<>>
    /\ prev_call = NoCall
    /\ last_call = NoCall
    /\ candidates = NoCall
    /\ builtin_table = ALIASES
    /\ passed = NoCall
    /\ sample_values \in Columns
    /\ sniffed = NoCall
    /\ NoImports
    /\ NoTexts

\* the call sniff_type(sample_values): it raises or it returns flags; the
\* record keeps the sample the call looked at
Sniff ==
    /\ sniffed = NoCall
    /\ sniffed' = IF SniffRaises(sample_values)
                  THEN [outcome |-> "raised", sample |-> Sample(sample_values)]
                  ELSE [outcome |-> "returned",
                        sample  |-> Sample(sample_values),
                        flags   |-> sniff_type(sample_values)]
    /\ UNCHANGED <<file_headers, file_rows, prev_call, last_call, candidates,
                   builtin_table, passed, sample_values, import_vars,
                   text_vars>>

SniffSpec == SniffInit /\ [][Sniff]_vars

(***************************************************************************)
(* The import command (cli.py): yoix import FILE --name N, run again and   *)
(* again on one file under one dataset name.  The store holds the entries  *)
(* dataset:N and mappings:N; cache_set writes the JSON text of a value and *)
(* cache_get parses it, which gives back a dict of lists of strings as it  *)
(* was.                                                                    *)
(***************************************************************************)
\* the first 100 rows are the sample rows
SampleRowCap == 100
SampleRows(rows) ==
    SubSeq(rows, 1, IF Len(rows) < SampleRowCap THEN Len(rows) ELSE SampleRowCap)

\* unmapped: the headers that no field was given
Unmapped(headers, mapping) ==
    SelectSeq(headers, LAMBDA h : \A f \in DOMAIN mapping : mapping[f] # h)

\* the dict dataset, without the name of the file and the date
Dataset(headers, rows, mapping) ==
    [headers          |-> headers,
     mapping          |-> mapping,
     rows             |-> rows,
     total_rows       |-> Len(rows),
     unmapped_columns |-> Unmapped(headers, mapping)]

\* learned_for_storage: for every mapped field, its learned aliases followed
\* by its header, without duplicates
LearnedForStorage(mapping, learned_mappings) ==
    [f \in DOMAIN mapping |->
        Dedup(Get(learned_mappings, f) \o <<mapping[f]>>)]

\* the keys that a run which stores writes, in order
Writes(mapping) ==
    IF mapping = <<>> THEN <<"dataset">> ELSE <<"dataset", "mappings">>

\* the store after cache_set of the keys written
RECURSIVE Written(_, _, _, _)
Written(entries, keys, dataset, learned_for_storage) ==
    IF keys = <<>> THEN entries
    ELSE Written((Head(keys) :> (IF Head(keys) = "dataset" THEN dataset
                                 ELSE learned_for_storage)) @@ entries,
                 Tail(keys), dataset, learned_for_storage)

\* the order in which a process iterates the fields
OrderOf(learned_mappings, reversed) ==
    IF reversed THEN Reverse(TableOrder(learned_mappings))
    ELSE TableOrder(learned_mappings)

\* a run that ends before the call of auto_map_columns or with its exception
Stopped(outcome, entries, learned_mappings) ==
    [outcome |-> outcome, mapping |-> <<>>, writes |-> <<>>,
     entries |-> entries, learned_mappings |-> learned_mappings]

\* lines 169-194 of a run: the dataset and the learned mappings are stored
Stored(entries, headers, rows, learned_mappings, call) ==
    [outcome |-> "imported",
     mapping |-> call.mapping,
     writes  |-> Writes(call.mapping),
     entries |-> Written(entries, Writes(call.mapping),
                         Dataset(headers, rows, call.mapping),
                         LearnedForStorage(call.mapping, learned_mappings)),
     learned_mappings |-> learned_mappings]

\* the run after the call of auto_map_columns, without the return at
\* "if preview"
MappedIgnoringPreview(entries, headers, rows, preview, learned_mappings, call) ==
    IF call.outcome = "raised"
    THEN Stopped("error", entries, learned_mappings)
    ELSE Stored(entries, headers, rows, learned_mappings, call)

\* lines 141-194 of a run, call being what auto_map_columns did
Mapped(entries, headers, rows, preview, learned_mappings, call) ==
    IF call.outcome = "raised"
    THEN Stopped("error", entries, learned_mappings)
    ELSE IF preview
    THEN [outcome |-> "preview", mapping |-> call.mapping,
          writes |-> <<>>, entries |-> entries,
          learned_mappings |-> learned_mappings]
    ELSE Stored(entries, headers, rows, learned_mappings, call)

\* lines 136-141 of a run: the learned mappings are read and the engine is
\* called with them
ReadAndMap(entries, headers, rows, threshold, reversed, learned_mappings) ==
    auto_map_columns(headers, SampleRows(rows), learned_mappings, threshold,
                     OrderOf(learned_mappings, reversed))

\* a run of the command that stores although --preview is given
yoix_import_ignoring_preview(entries, headers, rows, threshold, preview, force, reversed) ==
    IF "dataset" \in DOMAIN entries /\ ~force
    THEN Stopped("exists", entries, Get(entries, "mappings"))
    ELSE IF headers = <<>>
    THEN Stopped("no headers", entries, Get(entries, "mappings"))
    ELSE MappedIgnoringPreview(entries, headers, rows, preview,
                               Get(entries, "mappings"),
                               ReadAndMap(entries, headers, rows, threshold,
                                          reversed, Get(entries, "mappings")))

\* a run of the command: its outcome, the mapping, the keys written in order,
\* the store after it and the learned mappings it read
yoix_import(entries, headers, rows, threshold, preview, force, reversed) ==
    IF "dataset" \in DOMAIN entries /\ ~force
    THEN Stopped("exists", entries, Get(entries, "mappings"))
    ELSE IF headers = <<>>
    THEN Stopped("no headers", entries, Get(entries, "mappings"))
    ELSE Mapped(entries, headers, rows, preview, Get(entries, "mappings"),
                ReadAndMap(entries, headers, rows, threshold, reversed,
                           Get(entries, "mappings")))

\* the files that are imported: no header, one header, or the two headers
\* contact_email and e-mail; no row, or two rows with a first column of
\* e-mail addresses or of numbers, one of them malformed
ImportFiles ==
    { [headers |-> hs, rows |-> rs] :
        hs \in HeaderLists(1)
               \cup {<< <<"c","o","n","t","a","c","t","_","e","m","a","i","l">>,
                        <<"e","-","m","a","i","l">> >>},
        rs \in {<<>>} } \cup
    { [headers |-> hs,
       rows |-> [i \in 1..2 |-> [h \in Range(hs) |->
                    IF h = hs[1] THEN Cell(kind, i) ELSE Cell("text", i)]]] :
        hs \in HeaderLists(1) \ {<<>>}, kind \in ColumnKinds }

MaxImports == 3

ImportInit ==
    /\ \E file \in ImportFiles :
           file_headers = file.headers /\ file_rows = file.rows
    /\ prev_call = NoCall
    /\ last_call = NoCall
    /\ candidates = NoCall
    /\ builtin_table = ALIASES
    /\ passed = NoCall
    /\ sample_values = <<>>
    /\ sniffed = NoCall
    /\ NoImports
    /\ NoTexts

\* a run of yoix import on the file, in a process of one of the two orders
Import(threshold, preview, force, reversed) ==
    /\ import_count < MaxImports
    /\ \E run \in {yoix_import(cache, file_headers, file_rows, threshold,
                               preview, force, reversed)} :
           /\ cache' = run.entries
           /\ last_import' = [threshold        |-> threshold,
                              preview          |-> preview,
                              force            |-> force,
                              reversed         |-> reversed,
                              before           |-> cache,
                              outcome          |-> run.outcome,
                              mapping          |-> run.mapping,
                              writes           |-> run.writes,
                              learned_mappings |-> run.learned_mappings]
    /\ prev_import' = last_import
    /\ import_count' = import_count + 1
    /\ UNCHANGED <<file_headers, file_rows, prev_call, last_call, candidates,
                   builtin_table, passed, sample_values, sniffed, text_vars>>

ImportNext ==
    \E threshold \in {40, DefaultThreshold}, preview \in BOOLEAN,
       force \in BOOLEAN, reversed \in BOOLEAN :
        Import(threshold, preview, force, reversed)

ImportSpec == ImportInit /\ [][ImportNext]_vars

(***************************************************************************)
(* Direct calls of the string functions norm, tokens, jaccard,             *)
(* edit_distance and fuzzy_score on two strings.                           *)
(***************************************************************************)
MaxLen == 3

\* the strings of at most n characters of an alphabet
RECURSIVE Strings(_, _)
Strings(alphabet, n) ==
    IF n = 0 THEN {<<>>}
    ELSE LET shorter == Strings(alphabet, n - 1)
         IN  shorter \cup {Append(t, c) : t \in shorter, c \in alphabet}

\* a lower-case letter, an upper-case letter, the four separators and two
\* whitespace characters
NormAlphabet == {"a", "B", "_", "-", ".", "/", " ", "\t"}

\* the alphabet of the pairs of strings
PairAlphabet == {"a", "B", "_"}

\* the same words in another order
BusinessName == <<"b","u","s","i","n","e","s","s"," ","n","a","m","e">>
NameBusiness == <<"n","a","m","e"," ","b","u","s","i","n","e","s","s">>

\* a pair of strings, or one string of the larger alphabet with itself
TextInit ==
    /\ \/ /\ text_a \in Strings(PairAlphabet, MaxLen) \cup {BusinessName}
          /\ text_b \in Strings(PairAlphabet, MaxLen) \cup {NameBusiness}
       \/ /\ text_a \in Strings(NormAlphabet, MaxLen)
          /\ text_b = text_a
    /\ computed = NoCall
    /\ file_headers = <<>>
    /\ file_rows = <<>>
    /\ prev_call = NoCall
    /\ last_call = NoCall
    /\ candidates = NoCall
    /\ builtin_table = ALIASES
    /\ passed = NoCall
    /\ sample_values = <<>>
    /\ sniffed = NoCall
    /\ NoImports

\* the calls of the functions on text_a and text_b
Compute ==
    /\ computed = NoCall
    /\ computed' =
           [outcome     |-> "returned",
            norm_a      |-> norm(text_a),
            norm_b      |-> norm(text_b),
            norm_norm_a |-> norm(norm(text_a)),
            tokens_a    |-> tokens(text_a),
            tokens_b    |-> tokens(text_b),
            jaccard     |-> jaccard(tokens(text_a), tokens(text_b)),
            jaccard_ba  |-> jaccard(tokens(text_b), tokens(text_a)),
            distance    |-> edit_distance(text_a, text_b),
            distance_ba |-> edit_distance(text_b, text_a),
            distance_of_norms |-> edit_distance(norm(text_a), norm(text_b)),
            fuzzy       |-> fuzzy_score(text_a, text_b)]
    /\ UNCHANGED <<file_headers, file_rows, prev_call, last_call, candidates,
                   builtin_table, passed, sample_values, sniffed, import_vars,
                   text_a, text_b>>

TextSpec == TextInit /\ [][Compute]_vars

(***************************************************************************)
(* Properties of the calls.                                                *)
(***************************************************************************)
\* the position of x in a sequence without repetitions
PosIn(seq, x) == CHOOSE i \in DOMAIN seq : seq[i] = x

\* the score that scores[field] of call c records for header h
ScoreOf(c, field, h) ==
    LET ranked == c.scores[field]
    IN  ranked[CHOOSE i \in DOMAIN ranked : ranked[i].header = h].score

\* the headers that call c gave to the fields processed before field
ClaimedBefore(c, field) ==
    {c.mapping[e] : e \in {d \in DOMAIN c.mapping :
                              PosIn(c.key_order, d) < PosIn(c.key_order, field)}}

\* C1: the mapping a call returns is injective: no header is the value of
\* two different canonical fields
NoDoubleAssignment ==
    last_call.outcome = "returned" =>
        \A f, g \in DOMAIN last_call.mapping :
            f # g => last_call.mapping[f] # last_call.mapping[g]

\* a call that mapped two fields, one of which ranks first, with a score that
\* meets the threshold, the header the other one holds
WitnessNoDoubleAssignment ==
    /\ last_call.outcome = "returned"
    /\ \E f, g \in DOMAIN last_call.mapping :
          /\ f # g
          /\ last_call.scores[g][1].header = last_call.mapping[f]
          /\ last_call.scores[g][1].score >= last_call.threshold

\* C2: for every field of the returned mapping, the score that scores[field]
\* records for the mapped header is at least the threshold of the call
MappedScoreMeetsThreshold ==
    last_call.outcome = "returned" =>
        \A f \in DOMAIN last_call.mapping :
            ScoreOf(last_call, f, last_call.mapping[f]) >= last_call.threshold

\* a call that mapped a field and left out a field whose best unclaimed header
\* scores more than 0 and less than the threshold
WitnessMappedScoreMeetsThreshold ==
    /\ last_call.outcome = "returned"
    /\ last_call.mapping # <<>>
    /\ \E g \in DOMAIN last_call.scores \ DOMAIN last_call.mapping :
          \E i \in DOMAIN last_call.scores[g] :
              /\ last_call.scores[g][i].header \notin ClaimedBefore(last_call, g)
              /\ last_call.scores[g][i].score > 0
              /\ last_call.scores[g][i].score < last_call.threshold
              /\ \A j \in 1..(i - 1) :
                    last_call.scores[g][j].header \in ClaimedBefore(last_call, g)

\* the rule of the specification for one field: the first header of the
\* ranked list that is unclaimed and scores at least the threshold is claimed;
\* without such a header the field is left out and claims nothing
FirstQualifying(field, ranked, threshold, acc) ==
    LET qualifying == {i \in DOMAIN ranked :
                          /\ ranked[i].header \notin acc.chosen_headers
                          /\ ranked[i].score >= threshold}
    IN  IF qualifying = {} THEN acc
        ELSE LET pick == ranked[CHOOSE i \in qualifying :
                                    \A j \in qualifying : i <= j]
             IN  [mapping |-> acc.mapping @@ (field :> pick.header),
                  chosen_headers |-> acc.chosen_headers \cup {pick.header}]

\* the rule of the specification over the first n fields of key_order
RECURSIVE QualifyingAfter(_, _, _, _)
QualifyingAfter(n, key_order, scores, threshold) ==
    IF n = 0 THEN NoMapping
    ELSE FirstQualifying(key_order[n], scores[key_order[n]], threshold,
                         QualifyingAfter(n - 1, key_order, scores, threshold))

\* C3: the mapping of a call is the one that the rule "first header that is
\* unclaimed and scores at least the threshold" gives on the scores of the
\* call, in the processing order of the call, for its threshold: the code's
\* rule (first unclaimed header, then the threshold test) agrees with it
FirstUnclaimedIsFirstQualifying ==
    last_call.outcome = "returned" =>
        last_call.mapping =
            QualifyingAfter(Len(last_call.key_order), last_call.key_order,
                            last_call.scores, last_call.threshold).mapping

\* a call where a field got a header that is not the first of its list (the
\* first was claimed), a field with an unclaimed header under the threshold
\* was left out, and a list holds a header under the threshold after one
\* that meets it
WitnessFirstUnclaimedIsFirstQualifying ==
    /\ last_call.outcome = "returned"
    /\ \E f \in DOMAIN last_call.mapping :
          last_call.scores[f][1].header # last_call.mapping[f]
    /\ \E g \in DOMAIN last_call.scores \ DOMAIN last_call.mapping :
          \E i \in DOMAIN last_call.scores[g] :
              /\ last_call.scores[g][i].header \notin ClaimedBefore(last_call, g)
              /\ last_call.scores[g][i].score < last_call.threshold
    /\ \E f \in DOMAIN last_call.scores :
          /\ Len(last_call.scores[f]) = 2
          /\ last_call.scores[f][1].score >= last_call.threshold
          /\ last_call.scores[f][2].score < last_call.threshold

\* C4: a call processes the fields in the order of the built-in alias table
\* (name, address, address2, ..., rating), the fields that only the learned
\* table names after them, and the keys of the returned scores follow that
\* order
FieldsInTableOrder ==
    last_call.outcome = "returned" =>
        last_call.key_order = TableOrder(last_call.learned_aliases)

\* C5: two calls on the same headers and rows with the same learned aliases
\* and the same threshold return the same mapping and the same scores, with
\* the fields in the same order, whatever order the runtime iterates the set
\* of field names in
SameInputsSameResult ==
    ( /\ prev_call.outcome = "returned"
      /\ last_call.outcome = "returned"
      /\ prev_call.learned_aliases = last_call.learned_aliases
      /\ prev_call.threshold = last_call.threshold )
    => /\ prev_call.mapping = last_call.mapping
       /\ prev_call.scores = last_call.scores
       /\ prev_call.key_order = last_call.key_order

\* two calls on the same headers and rows, with the same learned aliases and
\* the same processing order, the first of them (lo) with a threshold that is
\* at most that of the other (hi)
ThresholdRaised(lo, hi) ==
    /\ lo.outcome = "returned"
    /\ hi.outcome = "returned"
    /\ lo.learned_aliases = hi.learned_aliases
    /\ lo.key_order = hi.key_order
    /\ lo.threshold <= hi.threshold

\* C6: with everything but the threshold fixed, the mapping of the higher
\* threshold has at most as many entries as that of the lower threshold
MappingSizeMonotone ==
    /\ ThresholdRaised(prev_call, last_call) =>
          Cardinality(DOMAIN last_call.mapping)
              <= Cardinality(DOMAIN prev_call.mapping)
    /\ ThresholdRaised(last_call, prev_call) =>
          Cardinality(DOMAIN prev_call.mapping)
              <= Cardinality(DOMAIN last_call.mapping)

\* the threshold was raised between two calls, and the mapping lost an entry
\* and kept another
WitnessMappingSizeMonotone ==
    /\ ThresholdRaised(prev_call, last_call)
    /\ prev_call.threshold < last_call.threshold
    /\ last_call.mapping # <<>>
    /\ Cardinality(DOMAIN last_call.mapping)
          < Cardinality(DOMAIN prev_call.mapping)

\* C7 as stated: with everything but the threshold fixed, every field of the
\* mapping of the higher threshold is a field of the mapping of the lower
\* threshold
RaisingDropsFieldsOnly ==
    /\ ThresholdRaised(prev_call, last_call) =>
          DOMAIN last_call.mapping \subseteq DOMAIN prev_call.mapping
    /\ ThresholdRaised(last_call, prev_call) =>
          DOMAIN prev_call.mapping \subseteq DOMAIN last_call.mapping

\* every field of hi's mapping is a field of lo's mapping, or the header it
\* has in hi's mapping is held in lo's mapping by a field processed before it
AddedOnlyWhereClaimed(lo, hi) ==
    \A f \in DOMAIN hi.mapping :
        \/ f \in DOMAIN lo.mapping
        \/ hi.mapping[f] \in ClaimedBefore(lo, f)

\* C7 as amended: with everything but the threshold fixed, a field of the
\* mapping of the higher threshold is a field of the mapping of the lower
\* threshold, or else the header it gets was claimed, at the lower threshold,
\* by a field processed before it
RaisingAddsOnlyReleasedHeaders ==
    /\ ThresholdRaised(prev_call, last_call) =>
          AddedOnlyWhereClaimed(prev_call, last_call)
    /\ ThresholdRaised(last_call, prev_call) =>
          AddedOnlyWhereClaimed(last_call, prev_call)

\* the threshold was raised between two calls and the mapping gained a field:
\* its header was held by an earlier field at the lower threshold
WitnessRaisingAddsOnlyReleasedHeaders ==
    /\ ThresholdRaised(prev_call, last_call)
    /\ prev_call.threshold < last_call.threshold
    /\ \E f \in DOMAIN last_call.mapping \ DOMAIN prev_call.mapping :
          last_call.mapping[f] \in ClaimedBefore(prev_call, f)

\* in call c, field f is processed before field g, and both rank header h
\* first among the headers unclaimed when f is processed, with a score that
\* meets the threshold
BothRankFirst(c, f, g, h) ==
    /\ PosIn(c.key_order, f) < PosIn(c.key_order, g)
    /\ h \notin ClaimedBefore(c, f)
    /\ FirstUnclaimed(c.scores[f], ClaimedBefore(c, f)).header = h
    /\ FirstUnclaimed(c.scores[g], ClaimedBefore(c, f)).header = h
    /\ ScoreOf(c, f, h) >= c.threshold
    /\ ScoreOf(c, g, h) >= c.threshold

\* in call c, field g has its first unclaimed header when that header meets
\* the threshold, and is left out otherwise
GetsNextUnclaimed(c, g) ==
    LET claimed == ClaimedBefore(c, g)
        ranked  == c.scores[g]
    IN  IF \A i \in DOMAIN ranked : ranked[i].header \in claimed
        THEN g \notin DOMAIN c.mapping
        ELSE LET next == FirstUnclaimed(ranked, claimed)
             IN  IF next.score >= c.threshold
                 THEN g \in DOMAIN c.mapping /\ c.mapping[g] = next.header
                 ELSE g \notin DOMAIN c.mapping

\* C8: the assignment is greedy in processing order: when f is processed
\* before g and both rank an unclaimed header h first with a score that meets
\* the threshold, f is mapped to h and g is not, whatever the two scores are;
\* g gets its next unclaimed header if that one meets the threshold and is
\* left out otherwise
EarlierFieldClaimsSharedHeader ==
    last_call.outcome = "returned" =>
        \A f, g \in DOMAIN last_call.scores :
            \A h \in Range(file_headers) :
                BothRankFirst(last_call, f, g, h) =>
                    /\ f \in DOMAIN last_call.mapping
                    /\ last_call.mapping[f] = h
                    /\ g \in DOMAIN last_call.mapping => last_call.mapping[g] # h
                    /\ GetsNextUnclaimed(last_call, g)

\* a call where the later field scores the shared header strictly higher than
\* the earlier field that claims it, and gets another header
WitnessEarlierFieldClaimsSharedHeader ==
    /\ last_call.outcome = "returned"
    /\ \E f, g \in DOMAIN last_call.scores :
          \E h \in Range(file_headers) :
              /\ BothRankFirst(last_call, f, g, h)
              /\ ScoreOf(last_call, g, h) > ScoreOf(last_call, f, h)
              /\ last_call.mapping[f] = h
              /\ g \in DOMAIN last_call.mapping

\* C9: scores has a list for every field of the merged alias table, built-in
\* or learned only, with or without aliases, and each list holds exactly one
\* entry per input header, whatever the threshold is and whatever headers
\* the assignment claimed
ScoresCoverEveryHeader ==
    last_call.outcome = "returned" =>
        /\ DOMAIN last_call.scores = FieldSet(last_call.learned_aliases)
        /\ \A f \in DOMAIN last_call.scores :
              /\ Len(last_call.scores[f]) = Len(file_headers)
              /\ \A h \in Range(file_headers) :
                    Cardinality({i \in DOMAIN last_call.scores[f] :
                                    last_call.scores[f][i].header = h}) = 1

\* a call with a learned-only field without aliases, on two headers that the
\* assignment both claimed, one of them for a field that ranks the other first
WitnessScoresCoverEveryHeader ==
    /\ last_call.outcome = "returned"
    /\ "notes" \in DOMAIN last_call.scores
    /\ last_call.learned_aliases["notes"] = <<>>
    /\ Len(file_headers) = 2
    /\ Cardinality(DOMAIN last_call.mapping) = 2
    /\ \E f \in DOMAIN last_call.mapping :
          last_call.scores[f][1].header # last_call.mapping[f]

\* C10: each list of scores is in descending order of score, and entries of
\* equal score are in the order of their headers in the input header list
RankedDescendingStable ==
    last_call.outcome = "returned" =>
        \A f \in DOMAIN last_call.scores :
            \A i, j \in DOMAIN last_call.scores[f] :
                i < j =>
                    LET a == last_call.scores[f][i]
                        b == last_call.scores[f][j]
                    IN  /\ a.score >= b.score
                        /\ a.score = b.score =>
                              PosIn(file_headers, a.header)
                                  < PosIn(file_headers, b.header)

\* a call with a list of two entries of equal score, and a list where the
\* second input header comes first because it scores more
WitnessRankedDescendingStable ==
    /\ last_call.outcome = "returned"
    /\ Len(file_headers) = 2
    /\ \E f \in DOMAIN last_call.scores :
          last_call.scores[f][1].score = last_call.scores[f][2].score
    /\ \E f \in DOMAIN last_call.scores :
          /\ last_call.scores[f][1].header = file_headers[2]
          /\ last_call.scores[f][1].score > last_call.scores[f][2].score

(***************************************************************************)
(* Properties of top_candidates.                                           *)
(***************************************************************************)
\* the candidates shown are the first entries of the ranked list of the field
\* asked for, as pairs of header and score
IsPrefixOfRanked ==
    LET ranked == IF candidates.field \in DOMAIN last_call.scores
                  THEN last_call.scores[candidates.field] ELSE <<>>
    IN  /\ Len(candidates.result) <= Len(ranked)
        /\ \A i \in 1..Len(candidates.result) :
               candidates.result[i] = <<ranked[i].header, ranked[i].score>>
        /\ \A i, j \in 1..Len(candidates.result) :
               i < j => candidates.result[i][2] >= candidates.result[j][2]
        /\ candidates.field \notin DOMAIN last_call.scores
               => candidates.result = <<>>

\* C11 as stated: for any k, top_candidates returns a prefix of the ranked
\* list of the field, of length at most k and in descending order of score,
\* whatever headers the assignment claimed, and the empty list for a field
\* that scores does not have
TopCandidatesAtMostK ==
    candidates.outcome = "returned"
        => /\ IsPrefixOfRanked
           /\ Len(candidates.result) <= candidates.k

\* C11: for any k >= 0, top_candidates returns a prefix of the ranked list of
\* the field, of length at most k and in descending order of score, whatever
\* headers the assignment claimed, and the empty list for a field that scores
\* does not have
TopCandidatesPrefix ==
    (candidates.outcome = "returned" /\ candidates.k >= 0)
        => /\ IsPrefixOfRanked
           /\ Len(candidates.result) <= candidates.k

\* top_candidates has cut a list of two candidates to the first, whose header
\* the assignment gave to the field, and has answered a field of no table
WitnessTopCandidatesPrefix ==
    /\ candidates.outcome = "returned"
    /\ candidates.k = 1
    /\ candidates.field \in DOMAIN last_call.scores
    /\ Len(last_call.scores[candidates.field]) > 1
    /\ Len(candidates.result) = 1
    /\ candidates.field \in DOMAIN last_call.mapping
    /\ last_call.mapping[candidates.field] = candidates.result[1][1]


(***************************************************************************)
(* Properties of the scores.                                               *)
(***************************************************************************)
\* in call c, the norm of header h is the norm of an alias of the field
ExactFor(c, field, h) ==
    \E a \in Range(c.all_aliases[field]) : NormOf[a] = NormOf[h]

\* C12: a header whose norm is the norm of an alias of a field scores at
\* least 100 for the field, and more than every header whose norm is the norm
\* of none of the aliases of the field, also when the first carries the
\* penalty of status and the second the bonus of the sniffing
ExactAliasDominates ==
    last_call.outcome = "returned"
        => \A field \in DOMAIN last_call.scores :
               \A h \in Range(file_headers) :
                   ExactFor(last_call, field, h)
                       => /\ ScoreOf(last_call, field, h) >= 100
                          /\ \A g \in Range(file_headers) :
                                 ~ExactFor(last_call, field, g)
                                     => ScoreOf(last_call, field, h)
                                            > ScoreOf(last_call, field, g)

\* a call in which status is an alias of state and carries the penalty next
\* to a header that is no alias of state, and in which the column of a header
\* that is no alias of email holds addresses next to a header that is one
WitnessExactAliasDominates ==
    /\ last_call.outcome = "returned"
    /\ \E h, g \in Range(file_headers) :
           /\ ExactFor(last_call, "state", h)
           /\ <<"s","t","a","t","u","s">> \in TokensOf[h]
           /\ ~ExactFor(last_call, "state", g)
           /\ ScoreOf(last_call, "state", h) = 180
    /\ \E h, g \in Range(file_headers) :
           /\ ExactFor(last_call, "email", h)
           /\ ~ExactFor(last_call, "email", g)
           /\ "email" \in sniff_type(SamplesOf(file_rows, g))
           /\ ScoreOf(last_call, "email", g) >= 30


\* C13: when a header that scored under the threshold for category is learned
\* as an alias of category and the engine runs again on the same headers, the
\* header has an exact score, at least 100, for category
LearnedAliasScoresExact ==
    (/\ prev_call # NoCall
     /\ prev_call.outcome = "returned"
     /\ last_call.outcome = "returned"
     /\ prev_call.learned_aliases = <<>>
     /\ "category" \in DOMAIN last_call.learned_aliases)
        => \A h \in Range(file_headers) :
               (/\ h \in Range(last_call.learned_aliases["category"])
                /\ ScoreOf(prev_call, "category", h) < prev_call.threshold)
                   => ScoreOf(last_call, "category", h) >= 100

\* zip scored under the threshold for category, was learned as an alias of
\* category, and scores 210 for category in the next call
WitnessLearnedAliasScoresExact ==
    /\ prev_call # NoCall
    /\ prev_call.outcome = "returned"
    /\ last_call.outcome = "returned"
    /\ prev_call.learned_aliases = <<>>
    /\ "category" \in DOMAIN last_call.learned_aliases
    /\ \E h \in Range(file_headers) :
           /\ h \in Range(last_call.learned_aliases["category"])
           /\ ScoreOf(prev_call, "category", h) < prev_call.threshold
           /\ ScoreOf(last_call, "category", h) = 210
           /\ "category" \notin DOMAIN prev_call.mapping


(***************************************************************************)
(* Properties of the merged alias table.                                   *)
(***************************************************************************)
\* the position of the first occurrence of x in a sequence
FirstIn(seq, x) ==
    CHOOSE i \in DOMAIN seq : seq[i] = x /\ \A j \in 1..(i - 1) : seq[j] # x

\* merged is the list both without its later duplicates, the first
\* occurrences in place
FirstOccurrencesOf(merged, both) ==
    /\ \A i, j \in DOMAIN merged : merged[i] = merged[j] => i = j
    /\ Range(merged) = Range(both)
    /\ \A i, j \in DOMAIN merged :
           i < j => FirstIn(both, merged[i]) < FirstIn(both, merged[j])

\* C14: the merged table has one entry for every field of the built-in table
\* or of the learned table; the list of a field is its built-in aliases
\* followed by its learned aliases, later duplicates removed and first
\* occurrences in place; a field whose learned list is empty or missing keeps
\* exactly its built-in aliases and stays in the table
MergedTableAsSpecified ==
    last_call # NoCall
        => /\ DOMAIN last_call.all_aliases
                  = DOMAIN ALIASES \cup DOMAIN last_call.learned_aliases
           /\ \A k \in DOMAIN last_call.all_aliases :
                  /\ FirstOccurrencesOf(
                         last_call.all_aliases[k],
                         Get(ALIASES, k) \o Get(last_call.learned_aliases, k))
                  /\ Get(last_call.learned_aliases, k) = <<>>
                         => last_call.all_aliases[k] = Get(ALIASES, k)

\* a call whose learned table repeats a built-in alias of state and repeats a
\* new one, gives city an empty list and adds a field without aliases
WitnessMergedTableAsSpecified ==
    /\ last_call # NoCall
    /\ {"state", "city", "notes"} \subseteq DOMAIN last_call.learned_aliases
    /\ Len(last_call.learned_aliases["state"]) = 3
    /\ Len(last_call.all_aliases["state"]) = Len(ALIASES["state"]) + 1
    /\ last_call.all_aliases["city"] = ALIASES["city"]
    /\ last_call.all_aliases["notes"] = <<>>
    /\ last_call.all_aliases["email"] = ALIASES["email"]


SniffNeverRaises ==
    sniffed # NoCall => sniffed.outcome = "returned"

\* the number of values of the sample that parse as a number within the limit
NumbersWithin(sample, limit) ==
    Cardinality({i \in DOMAIN sample :
                    /\ LooksNumeric(sample[i])
                    /\ FloatParses(sample[i])
                    /\ InRange(sample[i], limit)})

\* C17: with n the size of the sample and c the number of its values that
\* parse as a number in [-90, 90], the flag lat is set only if 10 * c >= 6 * n,
\* and likewise lng with [-180, 180]; a column without any numeric value is
\* flagged neither lat nor lng
LatLngNeedSixtyPercent ==
    (sniffed # NoCall /\ sniffed.outcome = "returned" /\ sniffed.sample # <<>>)
        => LET n == Len(sniffed.sample)
           IN  /\ "lat" \in sniffed.flags
                      => 10 * NumbersWithin(sniffed.sample, 90) >= 6 * n
               /\ "lng" \in sniffed.flags
                      => 10 * NumbersWithin(sniffed.sample, 180) >= 6 * n
               /\ (\A i \in DOMAIN sniffed.sample :
                       ~LooksNumeric(sniffed.sample[i]))
                      => sniffed.flags \cap {"lat", "lng"} = {}

\* the number of values of the sample that match the pattern of a flag
PatternCount(sample, flag) ==
    Cardinality({i \in DOMAIN sample :
                    CASE flag = "email"   -> EmailMatch(sample[i])
                      [] flag = "phone"   -> PhoneSearch(sample[i])
                      [] flag = "website" -> UrlMatch(sample[i])})

\* C18: with n the size of the sample and c the number of its values that
\* match the pattern of email, the flag email is set exactly when c >= 2 and
\* 5 * c >= n; phone and website have the same rule with their patterns
PatternFlagsNeedTwentyPercent ==
    (sniffed # NoCall /\ sniffed.outcome = "returned" /\ sniffed.sample # <<>>)
        => \A flag \in {"email", "phone", "website"} :
               flag \in sniffed.flags
                   <=> /\ PatternCount(sniffed.sample, flag) >= 2
                       /\ 5 * PatternCount(sniffed.sample, flag)
                              >= Len(sniffed.sample)

\* the first SampleCap values that are not blank, stripped
FirstNonBlank(values) ==
    LET kept == StripNonBlank(values)
    IN  SubSeq(kept, 1, IF Len(kept) < SampleCap THEN Len(kept) ELSE SampleCap)

\* C19: the sample sniff_type looks at is the first 50 values that are not
\* blank after stripping, blank values not counting towards the 50, or all of
\* them when they are fewer; without any, no flag is set; a column of 50 blank
\* cells followed by addresses is sniffed on the addresses
SampleIsFirstNonBlank ==
    sniffed # NoCall
        => /\ sniffed.sample = FirstNonBlank(sample_values)
           /\ (sniffed.outcome = "returned" /\ sniffed.sample = <<>>)
                  => sniffed.flags = {}


(***************************************************************************)
(* Properties of the collision of status and state.                        *)
(***************************************************************************)
StateHeader == <<"s","t","a","t","e">>
StatusHeader == <<"s","t","a","t","u","s">>

\* the call was made without learned aliases on the headers status and state
CollisionCall ==
    /\ last_call.outcome = "returned"
    /\ last_call.learned_aliases = <<>>
    /\ Range(file_headers) = {StateHeader, StatusHeader}

\* header state comes before header status in scores["state"]
StateOutranksStatus ==
    /\ last_call.scores["state"][1].header = StateHeader
    /\ ScoreOf(last_call, "state", StateHeader)
           > ScoreOf(last_call, "state", StatusHeader)

\* field state has header state
StateMappedToState ==
    /\ "state" \in DOMAIN last_call.mapping
    /\ last_call.mapping["state"] = StateHeader

\* C20 as stated: for the headers status and state with non-numeric values
\* and no learned aliases, header state outranks header status in
\* scores["state"], and for every threshold that the score of header state
\* clears the mapping gives field state header state and not header status,
\* whatever the order of the fields
StateGetsStateAtEveryThreshold ==
    CollisionCall
        => /\ StateOutranksStatus
           /\ ScoreOf(last_call, "state", StateHeader) >= last_call.threshold
                  => StateMappedToState

\* C20: for the headers status and state with non-numeric values and no
\* learned aliases, header state outranks header status in scores["state"],
\* and for every threshold that the score of header state for field state
\* clears and that the score of header state for no other field reaches, the
\* mapping gives field state header state and not header status, whatever the
\* order of the fields
StateGetsStateAboveOtherFields ==
    CollisionCall
        => /\ StateOutranksStatus
           /\ (/\ ScoreOf(last_call, "state", StateHeader)
                      >= last_call.threshold
               /\ \A field \in DOMAIN last_call.scores \ {"state"} :
                      ScoreOf(last_call, field, StateHeader)
                          < last_call.threshold)
                  => StateMappedToState

\* a call in the reverse of the table order, with status the first header and
\* rows of values, at a threshold above 0 that no field but state reaches for
\* header state: state has header state, and no field has header status
WitnessStateGetsStateAboveOtherFields ==
    /\ CollisionCall
    /\ file_headers[1] = StatusHeader
    /\ Len(file_rows) = MaxRows
    /\ last_call.key_order = Reverse(TableOrder(<<>>))
    /\ last_call.threshold > 0
    /\ ScoreOf(last_call, "state", StatusHeader) < 0
    /\ \A field \in DOMAIN last_call.scores \ {"state"} :
           ScoreOf(last_call, field, StateHeader) < last_call.threshold
    /\ StateMappedToState
    /\ StatusHeader \notin Range(last_call.mapping)


(***************************************************************************)
(* Properties of the import command.                                       *)
(***************************************************************************)
\* C21: the import command writes nothing to the store, neither dataset:N nor
\* mappings:N, when run with --preview, and nothing when a dataset of the name
\* exists and --force is not given; mappings:N is written only after
\* dataset:N and only when the mapping is not empty
ImportWritesOnlyWhenStoring ==
    last_import # NoCall
        => /\ last_import.preview
                  => last_import.writes = <<>> /\ cache = last_import.before
           /\ ("dataset" \in DOMAIN last_import.before /\ ~last_import.force)
                  => last_import.writes = <<>> /\ cache = last_import.before
           /\ "mappings" \in Range(last_import.writes)
                  => /\ last_import.writes = <<"dataset", "mappings">>
                     /\ last_import.mapping # <<>>
           /\ \A key \in {"dataset", "mappings"} :
                  key \notin Range(last_import.writes)
                      => /\ key \in DOMAIN cache
                               <=> key \in DOMAIN last_import.before
                         /\ key \in DOMAIN cache
                               => cache[key] = last_import.before[key]

\* a run with --preview and --force that maps a field, after a run that
\* stored the dataset and the learned mappings
WitnessImportWritesOnlyWhenStoring ==
    /\ prev_import # NoCall
    /\ prev_import.writes = <<"dataset", "mappings">>
    /\ last_import.preview
    /\ last_import.force
    /\ last_import.outcome = "preview"
    /\ last_import.mapping # <<>>
    /\ last_import.mapping # prev_import.mapping
    /\ cache = last_import.before


(***************************************************************************)
(* The score of a pair of field and header, term by term.                  *)
(***************************************************************************)
\* the flags of the column of header h in the file
FlagsOf(h) == sniff_type(SamplesOf(file_rows, h))

\* the largest Jaccard of the tokens of h with an alias, and the largest
\* fuzzy score of h with an alias; 0 for an empty list of aliases
MaxJaccard(aliases, h) ==
    IF aliases = {} THEN Zero
    ELSE RatMaxOf({jaccard(TokensOf[h], TokensOf[a]) : a \in aliases})

MaxFuzzy(aliases, h) ==
    IF aliases = {} THEN Zero
    ELSE RatMaxOf({FuzzyOf[h][a] : a \in aliases})

\* the terms of the score that are whole numbers
WholeTerms(field, aliases, h) ==
      (IF \E a \in aliases : NormOf[a] = NormOf[h] THEN 100 ELSE 0)
    + (IF field \in {"email", "phone", "website", "lat", "lng"}
          /\ field \in FlagsOf(h)
       THEN 30 ELSE 0)
    + (IF field = "postal_code"
          /\ NormOf[h] \in {<<"z","i","p">>, <<"z","i","p","c","o","d","e">>}
       THEN 10 ELSE 0)
    + (IF field = "phone"
          /\ NormOf[h] \in {<<"t","e","l">>,
                            <<"t","e","l","e","p","h","o","n","e">>}
       THEN 10 ELSE 0)
    - (IF field = "state" /\ StatusHeader \in TokensOf[h] THEN 30 ELSE 0)

\* the rounded sum of the terms
SumOfTerms(field, aliases, h) ==
    LET jac == MaxJaccard(aliases, h)
        fuz == MaxFuzzy(aliases, h)
    IN  RoundHalfEven(WholeTerms(field, aliases, h) * jac[2] * fuz[2]
                          + 70 * jac[1] * fuz[2] + 40 * fuz[1] * jac[2],
                      jac[2] * fuz[2])

\* C22: the score of a pair is the rounded sum of 100 when an alias has the
\* norm of the header, 70 times the largest Jaccard and 40 times the largest
\* fuzzy score over the aliases of the field (both 0 without aliases), 30
\* only when the header has the sniff flag of this very field (email, phone,
\* website, lat, lng), 10 for postal_code on zip or zipcode and for phone on
\* tel or telephone, and -30 for state when the tokens of the header contain
\* status; a flag of the header for another field adds nothing
ScoreIsSumOfTerms ==
    last_call.outcome = "returned"
        => \A field \in DOMAIN last_call.scores :
               \A h \in Range(file_headers) :
                   ScoreOf(last_call, field, h)
                       = SumOfTerms(field, Range(last_call.all_aliases[field]), h)

\* a call on a header whose column has the flag of email: the header scores
\* 0 for a field without aliases, and for phone what it scores without the
\* flag; a header with the token status is an alias of state and scores 180
WitnessScoreIsSumOfTerms ==
    /\ last_call.outcome = "returned"
    /\ "notes" \in DOMAIN last_call.scores
    /\ \E h \in Range(file_headers) :
           /\ "email" \in FlagsOf(h)
           /\ "phone" \notin FlagsOf(h)
           /\ ScoreOf(last_call, "notes", h) = 0
           /\ ScoreOf(last_call, "phone", h) > 0
           /\ ScoreOf(last_call, "email", h) >= 30
    /\ \E h \in Range(file_headers) :
           /\ ScoreOf(last_call, "state", h) = 180
    /\ \E h \in Range(file_headers) :
           /\ ScoreOf(last_call, "postal_code", h) = 220

(***************************************************************************)
(* C23                                                                     *)
(***************************************************************************)
\* one row of the Levenshtein matrix, built cell by cell from the row above
RECURSIVE LevenshteinRow(_, _, _, _)
LevenshteinRow(row, above, ch, sb) ==
    IF Len(row) > Len(sb) THEN row
    ELSE LET col  == Len(row)
             cost == IF ch = sb[col] THEN 0 ELSE 1
         IN  LevenshteinRow(Append(row, Min3(above[col + 1] + 1,
                                             row[col] + 1,
                                             above[col] + cost)),
                            above, ch, sb)

RECURSIVE LevenshteinRows(_, _, _, _)
LevenshteinRows(i, above, sa, sb) ==
    IF i > Len(sa) THEN above[Len(sb) + 1]
    ELSE LevenshteinRows(i + 1, LevenshteinRow(<<i>>, above, sa[i], sb),
                         sa, sb)

\* the least number of insertions, deletions and substitutions of one
\* character that turn sa into sb, from the full matrix
Levenshtein(sa, sb) ==
    LevenshteinRows(1, [col \in 1..(Len(sb) + 1) |-> col - 1], sa, sb)

\* C23: edit_distance(a, b) is the Levenshtein distance between norm(a) and
\* norm(b), also when one or both are empty, and it is the same as
\* edit_distance(b, a)
EditDistanceIsLevenshtein ==
    computed.outcome = "returned" =>
        /\ computed.distance = Levenshtein(norm(text_a), norm(text_b))
        /\ computed.distance_ba = computed.distance

\* two different strings of at least two characters after norm, so that the
\* two rows are swapped at least twice, have been compared
WitnessEditDistanceIsLevenshtein ==
    /\ computed.outcome = "returned"
    /\ Len(computed.norm_a) >= 3
    /\ Len(computed.norm_b) >= 2
    /\ computed.norm_a # computed.norm_b
    /\ computed.distance >= 2

(***************************************************************************)
(* C24                                                                     *)
(***************************************************************************)
SameRatio(p, q) == p[1] * q[2] = q[1] * p[2]

\* C24: jaccard(a, b) is 1 when both token sets are empty and otherwise the
\* size of the intersection over the size of the union; it is the same as
\* jaccard(b, a), lies between 0 and 1, and is 1 exactly when a = b, as for
\* "business name" and "name business"
JaccardAsSpecified ==
    computed.outcome = "returned" =>
        LET ta  == computed.tokens_a
            tb  == computed.tokens_b
            jac == computed.jaccard
        IN  /\ jac[2] > 0
            /\ IF ta = {} /\ tb = {} THEN SameRatio(jac, One)
               ELSE jac[1] * Cardinality(ta \cup tb)
                        = Cardinality(ta \cap tb) * jac[2]
            /\ SameRatio(computed.jaccard_ba, jac)
            /\ RatLeq(Zero, jac)
            /\ RatLeq(jac, One)
            /\ SameRatio(jac, One) <=> ta = tb
            /\ text_a = BusinessName /\ text_b = NameBusiness
                   => SameRatio(jac, One)

\* the two strings with the same words in another order have been compared
WitnessJaccardAsSpecified ==
    /\ computed.outcome = "returned"
    /\ text_a = BusinessName
    /\ text_b = NameBusiness
    /\ Cardinality(computed.tokens_a) = 2
    /\ computed.norm_a # computed.norm_b
    /\ SameRatio(computed.jaccard, One)

(***************************************************************************)
(* C25                                                                     *)
(***************************************************************************)
\* the longer of the two lengths, at least 1
LongerLen(sa, sb) ==
    IF Len(sa) = 0 /\ Len(sb) = 0 THEN 1
    ELSE IF Len(sa) >= Len(sb) THEN Len(sa) ELSE Len(sb)

\* C25: fuzzy_score(h, alias) is 1 exactly when norm(h) = norm(alias), and
\* otherwise 1 - d / max(len(norm(h)), len(norm(alias)), 1) with d the edit
\* distance; d is at most the longer length and the result lies between 0
\* and 1
FuzzyScoreAsSpecified ==
    computed.outcome = "returned" =>
        LET longer == LongerLen(computed.norm_a, computed.norm_b)
            fz     == computed.fuzzy
        IN  /\ fz[2] > 0
            /\ SameRatio(fz, One) <=> computed.norm_a = computed.norm_b
            /\ computed.norm_a # computed.norm_b
                   => SameRatio(fz, <<longer - computed.distance, longer>>)
            /\ computed.distance <= longer
            /\ RatLeq(Zero, fz)
            /\ RatLeq(fz, One)

\* two strings of different lengths after norm have been compared, with a
\* result strictly between 0 and 1
WitnessFuzzyScoreAsSpecified ==
    /\ computed.outcome = "returned"
    /\ Len(computed.norm_a) > Len(computed.norm_b)
    /\ Len(computed.norm_b) >= 2
    /\ computed.distance > 0
    /\ ~RatLeq(computed.fuzzy, Zero)
    /\ ~RatLeq(One, computed.fuzzy)

(***************************************************************************)
(* C26                                                                     *)
(***************************************************************************)
\* C26: norm(norm(s)) = norm(s), so that edit_distance gives the same
\* result on the normalized strings as on the raw ones; the output of norm
\* has no upper-case letter, no separator, no whitespace other than single
\* spaces between words
NormIsIdempotent ==
    computed.outcome = "returned" =>
        LET out == computed.norm_a
        IN  /\ computed.norm_norm_a = out
            /\ computed.distance_of_norms = computed.distance
            /\ \A i \in DOMAIN out :
                   /\ ~IsUpper(out[i])
                   /\ ~IsSeparator(out[i])
                   /\ IsSpace(out[i]) => out[i] = " "
            /\ out # <<>> => out[1] # " " /\ out[Len(out)] # " "
            /\ \A i \in 1..(Len(out) - 1) :
                   ~(out[i] = " " /\ out[i + 1] = " ")

\* a string with leading whitespace and a camel-case boundary has been
\* normalized
WitnessNormIsIdempotent ==
    /\ computed.outcome = "returned"
    /\ text_a = <<"\t", "a", "B">>
    /\ computed.norm_a = <<"a", " ", "b">>
    /\ computed.norm_norm_a = computed.norm_a

(***************************************************************************)
(* C27                                                                     *)
(***************************************************************************)
\* C27: whenever sniff_type sets the lat flag for a column it sets the lng
\* flag too, so the column gets the sniff bonus of 30 for field lng as well
LatFlagImpliesLngFlag ==
    sniffed.outcome = "returned" /\ "lat" \in sniffed.flags =>
        /\ "lng" \in sniffed.flags
        /\ SniffTerm("lat", sniffed.flags) = 30
        /\ SniffTerm("lng", sniffed.flags) = 30

\* a column of at least two values with a number within [-90, 90] got the
\* lat flag
WitnessLatFlagImpliesLngFlag ==
    /\ sniffed.outcome = "returned"
    /\ "lat" \in sniffed.flags
    /\ "lng" \in sniffed.flags
    /\ Len(sniffed.sample) >= 2
    /\ \E i \in DOMAIN sniffed.sample :
           LooksNumeric(sniffed.sample[i]) /\ InRange(sniffed.sample[i], 90)

(***************************************************************************)
(* C28                                                                     *)
(***************************************************************************)
\* the engine ran without learned aliases and then again, on the same file
\* with the same threshold, with learned aliases
RanAgainWithLearned ==
    /\ prev_call # NoCall
    /\ prev_call.outcome = "returned"
    /\ last_call.outcome = "returned"
    /\ prev_call.learned_aliases = <<>>
    /\ last_call.learned_aliases # <<>>
    /\ last_call.threshold = prev_call.threshold

\* C28: with headers and rows fixed, adding aliases to the learned list of a
\* field never lowers the score of a header for that field, and the scores
\* of the fields that get no new alias stay as they were
ScoresMonotoneInLearned ==
    RanAgainWithLearned =>
        /\ DOMAIN prev_call.scores \subseteq DOMAIN last_call.scores
        /\ \A field \in DOMAIN prev_call.scores :
               \A h \in Range(file_headers) :
                   IF Get(last_call.learned_aliases, field) # <<>>
                   THEN ScoreOf(last_call, field, h)
                            >= ScoreOf(prev_call, field, h)
                   ELSE ScoreOf(last_call, field, h)
                            = ScoreOf(prev_call, field, h)

\* a header scores higher for a field after an alias was learned for that
\* field, and the same as before for a field without a learned alias
WitnessScoresMonotoneInLearned ==
    /\ RanAgainWithLearned
    /\ \E field \in DOMAIN prev_call.scores, h \in Range(file_headers) :
           /\ Get(last_call.learned_aliases, field) # <<>>
           /\ ScoreOf(last_call, field, h) > ScoreOf(prev_call, field, h)
    /\ \E field \in DOMAIN prev_call.scores, h \in Range(file_headers) :
           /\ Get(last_call.learned_aliases, field) = <<>>
           /\ ScoreOf(prev_call, field, h) > 0

(***************************************************************************)
(* C29                                                                     *)
(***************************************************************************)
\* C29: the stored learned-alias table only grows: an alias stored for a
\* field before a run of the import command is still stored for that field
\* after it, also when the run does not map that field
StoredLearnedOnlyGrows ==
    (last_import # NoCall /\ "mappings" \in DOMAIN last_import.before) =>
        /\ "mappings" \in DOMAIN cache
        /\ \A f \in DOMAIN last_import.before["mappings"] :
               /\ f \in DOMAIN cache["mappings"]
               /\ Range(last_import.before["mappings"][f])
                      \subseteq Range(cache["mappings"][f])

(***************************************************************************)
(* C30                                                                     *)
(***************************************************************************)
\* a run stored its mapping, and the next run mapped the same file with the
\* same threshold in a process of the same field order
RanAgainOnStored ==
    /\ prev_import # NoCall
    /\ prev_import.outcome = "imported"
    /\ last_import.outcome \in {"imported", "preview"}
    /\ last_import.threshold = prev_import.threshold
    /\ last_import.reversed = prev_import.reversed

\* C30: when the mapping M of a run is fed back, every mapped header M[f]
\* being among the learned aliases of f in the next run on the same headers,
\* rows and threshold with the same field order, the next run returns M
FeedingBackIsStable ==
    RanAgainOnStored =>
        /\ \A f \in DOMAIN prev_import.mapping :
               /\ f \in DOMAIN last_import.learned_mappings
               /\ prev_import.mapping[f]
                      \in Range(last_import.learned_mappings[f])
        /\ last_import.mapping = prev_import.mapping

\* a mapping of two fields was fed back and returned again
WitnessFeedingBackIsStable ==
    /\ RanAgainOnStored
    /\ Cardinality(DOMAIN prev_import.mapping) = 2
    /\ last_import.learned_mappings # <<>>
    /\ last_import.mapping = prev_import.mapping

====
